---- MODULE Spec2Model ----
(***************************************************************************)
(* A model of the GitHub crawling subsystem of sdk-datasets:               *)
(*   - GitHubClient (src/github/client.py): class-level rate limiter,      *)
(*     get() with its retry policy, get_repository_file() with its         *)
(*     download loop;                                                      *)
(*   - RepositoryFetcher (src/github/repository.py): the recursive crawl.  *)
(* Time is counted in whole seconds and kept relative: the model holds     *)
(* time.time() - last_request_time and time.time() - hour_start_time, the   *)
(* only forms in which the code reads the clock.                           *)
(***************************************************************************)
EXTENDS Integers, Sequences, FiniteSets, TLC

(***************************************************************************)
(* Bounds of the model.                                                    *)
(***************************************************************************)
\* config.settings.GITHUB_MAX_RETRIES (imported at client.py:11; the settings
\* module sets the value, every claim is checked for this value and the next)
GITHUB_MAX_RETRIES == 3
\* config.settings.GITHUB_DOWNLOAD_RETRIES (imported at client.py:13)
GITHUB_DOWNLOAD_RETRIES == 2
\* calls of get / get_repository_file started over a run
MaxCalls == 2
\* config.settings.MAX_FILE_SIZE_MB
MAX_FILE_SIZE_MB == 1
\* the largest repository tree, in files
MaxFiles == 3
\* calls of the task tracker, clock steps included, over a run
MaxTrackerCalls == 6
MaxPages == 3
MaxRepos == 6

\* worker threads that call the client concurrently
Threads == {"w1", "w2"}
\* a caller whose calls the history variable `call` follows one by one
Observed == "caller"
\* the threads of a crawl that has more than one pool at work (repository.py:156)
CrawlThreads == Threads \cup {"w3", "w4"}
AllThreads == CrawlThreads \cup {Observed}

(***************************************************************************)
(* Program constants of GitHubClient.                                      *)
(***************************************************************************)
requests_per_hour == 5000
HourSeconds == 3600
InitialInterval == 1
LowInterval == 2
QuotaFloor == 10
LowRemainingMark == 100
ResetBuffer == 5
LongWait == 120
MaxWaitSleep == 30
MaxDownloadSleep == 30
DefaultRemaining == 1

\* the clock is followed this many seconds past an event: time.time() -
\* last_request_time is kept up to AgeCap (the code compares it with
\* min_request_interval only, which is at most LowInterval), and a sleep longer
\* than AgeCap may end any time after AgeCap seconds
AgeCap == LowInterval

Max(a, b) == IF a >= b THEN a ELSE b
Min(a, b) == IF a <= b THEN a ELSE b

RECURSIVE Pow2(_)
Pow2(n) == IF n <= 0 THEN 1 ELSE 2 * Pow2(n - 1)

(***************************************************************************)
(* Inputs: what the network answers.                                       *)
(***************************************************************************)
\* X-RateLimit-Remaining header values; NoHeader: the header is absent
NoHeader == -1
Remainings == {NoHeader, 100, 101}
\* X-RateLimit-Reset minus the clock at the response (-1: a reset in the past,
\* also the absent header, which the code reads as reset 0)
ResetDeltas == {-1, 115, 116, 120}
\* values of current_requests at the moment of a long job the run starts from
StartRequests == {0, 4989}

NetError == [status |-> "neterr", remaining |-> NoHeader, delta |-> 0, body |-> "none"]
Responses ==
    {NetError}
    \cup [status : {"200"}, remaining : Remainings, delta : {0}, body : {"list", "file"}]
    \cup [status : {"403rl"}, remaining : {0}, delta : ResetDeltas, body : {"none"}]
    \cup [status : {"other"}, remaining : {101}, delta : {0}, body : {"none"}]

\* the download (session.get + raise_for_status) ends in one of these
DownloadResults == {"ok", "connection", "request"}

VARIABLES
    request_lock,         \* the holder of GitHubClient.request_lock, or "free"
    since_last_request,   \* time.time() - last_request_time, up to AgeCap
    since_hour_start,     \* time.time() - hour_start_time: 0 while the hour has not
                          \* passed, HourSeconds + 1 once it has
    min_request_interval,
    current_requests,
    th,                   \* per thread: position and locals of get / get_repository_file
    call,                 \* what the current call of the observed thread has done so far
    calls                 \* calls started so far

clientVars == <<request_lock, since_last_request, since_hour_start,
                min_request_interval, current_requests, th, call, calls>>

\* pc "idle": outside get and get_repository_file
IdleThread == [pc |-> "idle", kind |-> "none", phase |-> "none", retries |-> 0,
               retry_count |-> 0, elapsed |-> 0, admit |-> 0, sleep_left |-> 0]

\* what of a response the history keeps
Seen(r) == [status |-> r.status, delta |-> r.delta]
NoResponse == [status |-> "none", delta |-> 0]

\* attempts: HTTP attempts of get; downloads: download attempts; waits: retry
\* sleeps; paced: pacing sleeps; stamps: writes of last_request_time; counted:
\* increments of current_requests; get_outcome: how get ended ("return" or
\* the error); outcome: how the call ended; seen, last: the responses to get;
\* pre_requests, pre_hour: the counter and the hour's age the budget check found;
\* last_remaining: the X-RateLimit-Remaining header of the last response;
\* last_download: how the last download attempt ended
NoCall == [attempts |-> 0, downloads |-> 0, waits |-> 0, paced |-> 0,
           stamps |-> 0, counted |-> 0, did_reset |-> FALSE,
           get_outcome |-> "none", outcome |-> "none", seen |-> {}, last |-> NoResponse,
           pre_requests |-> 0, pre_hour |-> 0,
           last_remaining |-> NoHeader, last_download |-> "none"]

(***************************************************************************)
(* GitHubClient.get: the pieces of its control flow.                       *)
(***************************************************************************)
\* client.py:61
HourPassed(elapsed_since_hour_start) == elapsed_since_hour_start > HourSeconds

\* client.py:67   current_requests > requests_per_hour * 0.9
ApproachingLimit(cur) == cur * 10 > requests_per_hour * 9

QuotaExhausted_NoneLeft(cur) ==
    ApproachingLimit(cur) /\ requests_per_hour - cur <= 0

\* client.py:68-71
QuotaExhausted(cur) ==
    ApproachingLimit(cur) /\ requests_per_hour - cur <= QuotaFloor

PaceSleepTime_NoWait(elapsed, interval) == 0

\* client.py:85-86  the sleep the pacing asks for (0: none)
PaceSleepTime(elapsed, interval) ==
    IF elapsed < interval THEN interval - elapsed ELSE 0

\* client.py:102
RemainingOf(header) == IF header = NoHeader THEN DefaultRemaining ELSE header

AdaptInterval_HeaderOnly(interval, header) ==
    IF header # NoHeader /\ header <= LowRemainingMark
    THEN Max(interval, LowInterval) ELSE interval

\* client.py:103-110
AdaptInterval(interval, header) ==
    IF RemainingOf(header) <= LowRemainingMark THEN Max(interval, LowInterval) ELSE interval

\* client.py:119
RateLimitWait(delta) == Max(delta, 0) + ResetBuffer

WaitTooLong_Buffered(wait_time) == wait_time > LongWait + ResetBuffer

\* client.py:122
WaitTooLong(wait_time) == wait_time > LongWait

CanRetry_UpToMax(retries) == retries < GITHUB_MAX_RETRIES
CanRetry_OneShort(retries) == retries < GITHUB_MAX_RETRIES - 2

\* client.py:131, 153
CanRetry(retries) == retries < GITHUB_MAX_RETRIES - 1

\* client.py:156  (2**retries) + 0.1 * random.random(), in whole seconds
BackoffTime(retries) == Pow2(retries)

\* client.py:333  min(30, 2**retry_count + random.random() * 2), in whole seconds
DownloadBackoff(retry_count) == Min(MaxDownloadSleep, Pow2(retry_count))

\* the status error raised inside the try block is taken for a network error
DownloadRetry_AnyError(res, retry_count) ==
    res \in {"connection", "request"} /\ retry_count < GITHUB_DOWNLOAD_RETRIES

\* client.py:324-332: a connection-level error is retried while the count,
\* already incremented, is below the budget
DownloadRetry(res, retry_count) ==
    res = "connection" /\ retry_count < GITHUB_DOWNLOAD_RETRIES

Decide_Caught(r, retries) ==
    CASE r.status \in {"neterr", "other"} ->
             IF CanRetry(retries) THEN "retry_backoff" ELSE "GitHubAPIError_connect"
      [] r.status = "200" -> "return"
      [] OTHER ->
             IF WaitTooLong(RateLimitWait(r.delta)) THEN "RateLimitError_long"
             ELSE IF CanRetry(retries) THEN "retry_wait"
             ELSE "RateLimitError_later"

\* client.py:112-159: what get does with the outcome of one HTTP attempt
Decide(r, retries) ==
    CASE r.status = "neterr" ->
             IF CanRetry(retries) THEN "retry_backoff" ELSE "GitHubAPIError_connect"
      [] r.status = "200" -> "return"
      [] r.status = "403rl" ->
             IF WaitTooLong(RateLimitWait(r.delta)) THEN "RateLimitError_long"
             ELSE IF CanRetry(retries) THEN "retry_wait"
             ELSE "RateLimitError_later"
      [] OTHER -> "GitHubAPIError_status"

(***************************************************************************)
(* RepositoryFetcher: the crawl of one repository.                         *)
(* Names are sequences of characters, a path is a sequence of names.  The   *)
(* keyword, ignored-name and extension sets and the size limit come from    *)
(* config.settings, which repository.py imports (lines 7-14).               *)
(***************************************************************************)
RELEVANT_FOLDERS == {<<"d","o","c","s">>, <<"e","x","a","m","p","l","e","s">>}
IGNORED_DIRS == {<<"b","u","i","l","d">>, <<"v","e","n","d","o","r">>}
TEXT_FILE_EXTENSIONS == {<<".","m","d">>, <<".","p","y">>}
BytesPerMB == 1024 * 1024
\* ThreadPoolExecutor(max_workers=3)
max_workers == 3
\* the depth limit of _scan_directory_structure, the only one in the source
max_depth == 10

\* str.lower() over the letters the names use
UpperToLower == ("A" :> "a") @@ ("D" :> "d") @@ ("F" :> "f") @@ ("M" :> "m")
LowerChar(c) == IF c \in DOMAIN UpperToLower THEN UpperToLower[c] ELSE c
Lower(s) == [i \in 1..Len(s) |-> LowerChar(s[i])]
\* sub in s
Contains(sub, s) ==
    \E i \in 0..(Len(s) - Len(sub)) : SubSeq(s, i + 1, i + Len(sub)) = sub
\* s.endswith(suffix)
EndsWith(s, suffix) ==
    /\ Len(suffix) <= Len(s)
    /\ SubSeq(s, Len(s) - Len(suffix) + 1, Len(s)) = suffix
\* the path string of a sequence of names, "a/b/c"
RECURSIVE JoinPath(_)
JoinPath(p) ==
    IF p = <<>> THEN <<>>
    ELSE IF Len(p) = 1 THEN p[1]
    ELSE p[1] \o <<"/">> \o JoinPath(Tail(p))

\* the files a repository may hold: [dir, name, size in bytes]
File(dir, name, size) == [dir |-> dir, name |-> name, size |-> size]
N_docs == <<"d","o","c","s">>
N_ApiDocs == <<"A","p","i","D","o","c","s">>
N_src == <<"s","r","c">>
N_sub == <<"s","u","b">>
N_build == <<"b","u","i","l","d">>
N_a_md == <<"a",".","m","d">>
UnderLimit == 1024
AtLimit == MAX_FILE_SIZE_MB * BytesPerMB
OverLimit == MAX_FILE_SIZE_MB * BytesPerMB + 1
Universe ==
    { File(<<N_docs>>, N_a_md, UnderLimit),
      File(<<N_src>>, <<"b",".","p","y">>, UnderLimit),
      File(<<N_docs>>, <<"b","i","g",".","m","d">>, OverLimit),
      File(<<N_docs>>, <<"l","i","m",".","m","d">>, AtLimit),
      File(<<N_docs>>, <<"i",".","p","n","g">>, UnderLimit),
      File(<<N_docs, N_sub>>, <<"h",".","m","d">>, UnderLimit),
      File(<<N_docs, N_build>>, <<"e",".","m","d">>, UnderLimit),
      File(<<N_src, N_docs>>, <<"c",".","m","d">>, UnderLimit),
      File(<<N_ApiDocs>>, <<"F",".","M","D">>, UnderLimit),
      File(<<>>, <<"R",".","m","d">>, UnderLimit) }
\* the tree of the spec's example: docs/a.md, src/b.py, docs/big.md
ExampleTree ==
    { File(<<N_docs>>, N_a_md, UnderLimit),
      File(<<N_src>>, <<"b",".","p","y">>, UnderLimit),
      File(<<N_docs>>, <<"b","i","g",".","m","d">>, OverLimit) }
\* one file below a chain of directories deeper than max_depth
DeepDir == <<N_docs>> \o [i \in 1..max_depth |-> N_sub]
DeepTree == { File(DeepDir, N_a_md, UnderLimit) }
Trees == {t \in SUBSET Universe : Cardinality(t) <= MaxFiles} \cup {DeepTree}

Root == <<>>
Prefixes(p) == {SubSeq(p, 1, n) : n \in 0..Len(p)}
DirsOf(files) == UNION {Prefixes(f.dir) : f \in files} \cup {Root}
AllDirs == DirsOf(Universe \cup DeepTree)
Parent(d) == SubSeq(d, 1, Len(d) - 1)
ItemName(d) == d[Len(d)]
ItemPath(f) == f.dir \o <<f.name>>

VARIABLES
    tree,        \* the files of the repository being crawled
    act,         \* per directory: the activation of _fetch_directory_content
    processed,   \* the files _process_file has been called for
    failed,      \* the files whose download or cache write raised
    content,     \* the call of fetch_content_for_dataset around the crawl
    parse        \* the last repository URL resolved, and what came of it

crawlVars == <<tree, act, processed, failed, content, parse>>

\* st "none": never submitted; "queued": submitted to the pool of the parent;
\* "running": listed, own files processed, waiting for the subdirectories;
\* "done": returned
NoActivation == [st |-> "none", listing |-> "none", files_data |-> <<>>]

\* fetch_content_for_dataset called with a progress callback: where the call
\* is ("idle", "crawling", "returned", "raised") and, as history, the values
\* the callback has received
NoContent == [pc |-> "idle", sink |-> <<>>]
ErrorSentinel == -1

\* no URL has been resolved; url is the string the caller is about to pass
NoParse == [op |-> "none", url |-> <<>>, outcome |-> "none", owner |-> <<>>,
            repo |-> <<>>, http |-> FALSE]

\* no crawl in progress: no tree, no activation
CrawlAtRest ==
    /\ tree = {}
    /\ act = <<>>
    /\ processed = {}
    /\ failed = {}
    /\ content = NoContent

(***************************************************************************)
(* TaskTracker (utils/task_tracker.py): one persisted record per task id.   *)
(* The module is not part of the sources at hand; its operations follow     *)
(* section 4.5 of the specification and the expectations of                 *)
(* src/tests/test_task_tracker.py.                                          *)
(***************************************************************************)
TaskTypes == {"repository", "organization"}
\* current_stage None, a timestamp not written
NoStage == "none"
NoTime == -1
\* the progress updates that are made: a percentage and a stage, or no stage
Updates == {<<10, "A">>, <<50, "A">>, <<10, "B">>, <<50, NoStage>>}
Results == {"none", "dataset", "error"}
FullProgress == 100
SecondsPerMinute == 60
\* the clock advances by a minute and a second
ClockSteps == {SecondsPerMinute + 1}

\* f"{task_type}_{timestamp}", the timestamp to the second
TaskId_TypeOnly(type, now) == <<type, 0>>
TaskId(type, now) == <<type, now>>

\* the record create_task writes
NewTask(type, now) ==
    [type |-> type, status |-> "created", progress |-> 0,
     current_stage |-> NoStage, stage_progress |-> 0, stages |-> <<>>,
     created_at |-> now, updated_at |-> now, stage_started_at |-> NoTime,
     stage_writes |-> 0, completed_at |-> NoTime, cancelled_at |-> NoTime,
     result |-> "none"]

\* update_task_progress: a stage is entered when one is given and it
\* differs from the recorded one
StageChanges_Always(task, stage) == stage # NoStage
StageChanges(task, stage) == stage # NoStage /\ stage # task.current_stage

\* the first update starts the task
StatusAfterUpdate_Restarted(status) == "in_progress"
StatusAfterUpdate(status) == IF status = "created" THEN "in_progress" ELSE status

UpdatedTask(task, percent, stage, stage_progress, now) ==
    [task EXCEPT
        !.status = StatusAfterUpdate(@),
        !.progress = percent,
        !.stage_progress = stage_progress,
        !.updated_at = now,
        !.stages = IF StageChanges(task, stage) /\ task.current_stage # NoStage
                   THEN Append(@, task.current_stage) ELSE @,
        !.current_stage = IF StageChanges(task, stage) THEN stage ELSE @,
        !.stage_started_at = IF StageChanges(task, stage) THEN now ELSE @,
        !.stage_writes = IF StageChanges(task, stage) THEN @ + 1 ELSE @]

\* complete_task
TerminalStatus_Completed(success) == "completed"
TerminalStatus(success) == IF success THEN "completed" ELSE "failed"

CompletedTask(task, success, result, now) ==
    [task EXCEPT
        !.status = TerminalStatus(success),
        !.result = result,
        !.stages = IF task.current_stage # NoStage
                   THEN Append(@, task.current_stage) ELSE @,
        !.current_stage = NoStage,
        !.progress = IF success THEN FullProgress ELSE @,
        !.completed_at = now,
        !.updated_at = now]

\* cancel_task
CancelledTask_Unmarked(task, now) ==
    [task EXCEPT !.cancelled_at = now, !.updated_at = now]
CancelledTask(task, now) ==
    [task EXCEPT !.status = "cancelled", !.cancelled_at = now, !.updated_at = now]

\* list_resumable_tasks: the in_progress tasks, most recently updated first,
\* each with its updated_ago
UpdatedAgo(age) == [n |-> age \div SecondsPerMinute, unit |-> "minutes ago"]
Resumable_NotEnded(store) ==
    {id \in DOMAIN store : store[id].status \in {"in_progress", "created"}}
Resumable(store) == {id \in DOMAIN store : store[id].status = "in_progress"}
RECURSIVE MostRecentFirst(_, _)
MostRecentFirst(store, ids) ==
    IF ids = {} THEN <<>>
    ELSE LET id == CHOOSE x \in ids :
                       \A y \in ids : store[x].updated_at >= store[y].updated_at
         IN <<id>> \o MostRecentFirst(store, ids \ {id})
ListResumable(store, now) ==
    LET order == MostRecentFirst(store, Resumable(store))
    IN [i \in 1..Len(order) |->
           [id |-> order[i], status |-> store[order[i]].status,
            updated_at |-> store[order[i]].updated_at,
            updated_ago |-> UpdatedAgo(now - store[order[i]].updated_at)]]

VARIABLES
    tasks,          \* the persisted records, by task id
    clock,          \* datetime.now(), in seconds
    ids_created,    \* the ids create_task has returned, in order, with the
                    \* type and the second of each call
    last_list,      \* what the last list_resumable_tasks returned
    tracker_calls,  \* calls of the tracker and clock steps so far
    last_call       \* the latest of them: the operation and its task id

NoTrackerCall == [op |-> "none", id |-> <<>>]
trackerVars == <<tasks, clock, ids_created, last_list, tracker_calls, last_call>>

\* no task has been created
TrackerAtRest ==
    /\ tasks = <<>>
    /\ clock = 0
    /\ ids_created = <<>>
    /\ last_list = <<>>
    /\ tracker_calls = 0
    /\ last_call = NoTrackerCall

(***************************************************************************)
(* The jobs that drive the crawl: DatasetCreator.create_dataset_from_       *)
(* repository, ContentFetcher.fetch_organization_repositories and           *)
(* ContentFetcher.fetch_multiple_repositories, and the cancellation event   *)
(* they are given.                                                          *)
(***************************************************************************)
VARIABLES
    cancellation_event,   \* threading.Event: is_set()
    job,                  \* create_dataset_from_repository: position and locals
    org,                  \* fetch_organization_repositories: position and locals
    multi                 \* fetch_multiple_repositories: position and locals

jobVars == <<cancellation_event, job, org, multi>>

\* create_dataset_from_repository before the call: whether an event was
\* passed, the task id, what the fetch gave, what _process_repository
\* returned and why, whether a check saw the flag set, and the outcome
NoJob == [pc |-> "idle", has_event |-> FALSE, task_id |-> <<>>, cause |-> "none",
          content |-> "none", success |-> "none", processing_result |-> "none",
          flag_seen |-> FALSE, outcome |-> "none", resumed |-> FALSE]
\* fetch_organization_repositories before the call: its locals
\* (content_fetcher.py:65-68), whether an event was passed, the checkpoints
\* passed and the pages requested so far, the callback's calls, the outcome
NoOrg == [pc |-> "idle", has_event |-> FALSE, page |-> 1, processed |-> 0,
          total_repos |-> 0, checks |-> 0, requested |-> 0, messages |-> <<>>,
          result |-> 0, outcome |-> "none"]
\* fetch_multiple_repositories before the call: the number of repositories,
\* the first repository of the next batch, how each submitted repository
\* ended, the flag as it stood when each batch was submitted, the
\* repositories whose files are in all_content, the last progress, the
\* outcome, every value the progress callback has received, and the
\* repositories in the order their files were appended to all_content
NoMulti == [pc |-> "idle", repos |-> 0, next |-> 1, outcomes |-> <<>>,
            batches |-> <<>>, all_content |-> {}, progress |-> 0,
            outcome |-> "none", sink |-> <<>>, extended |-> <<>>]

\* no job has been started
JobsAtRest ==
    /\ cancellation_event = FALSE
    /\ job = NoJob
    /\ org = NoOrg
    /\ multi = NoMulti

vars == <<clientVars, crawlVars, trackerVars, jobVars>>

(***************************************************************************)
(* Initial state: the class attributes of GitHubClient (client.py:35-40).  *)
(* last_request_time is 0 until the first request, so the clock is far     *)
(* past it.                                                                *)
(***************************************************************************)
InitClient ==
    /\ request_lock = "free"
    /\ since_last_request = AgeCap
    /\ since_hour_start = 0
    /\ min_request_interval = InitialInterval
    /\ current_requests \in StartRequests
    /\ th = [t \in AllThreads |-> IdleThread]
    /\ call = NoCall
    /\ calls = 0
    /\ CrawlAtRest
    /\ parse = NoParse
    /\ TrackerAtRest
    /\ JobsAtRest

SetTh(t, r) == th' = [th EXCEPT ![t] = r]
SetCall(t, r) == call' = IF t = Observed THEN r ELSE call

\* the top of `while retries < GITHUB_MAX_RETRIES` (client.py:80, 161)
LoopTop(t, r, c) ==
    IF r.retries < GITHUB_MAX_RETRIES
    THEN /\ SetTh(t, [r EXCEPT !.pc = "pace"])
         /\ SetCall(t, c)
    ELSE /\ SetTh(t, IdleThread)
         /\ SetCall(t, [c EXCEPT !.get_outcome = "GitHubAPIError_max_retries",
                                 !.outcome = "GitHubAPIError_max_retries"])

\* client.py:50-80: a caller enters get (kind "get") or get_repository_file
\* (kind "file", which starts with get_repository_contents -> get, client.py:298);
\* get starts with the hourly budget check, all of it under request_lock
EnterGet(t, k, cap) ==
    /\ th[t].pc = "idle"
    /\ calls < cap
    /\ calls' = calls + 1
    /\ request_lock = "free"
    /\ LET passed == HourPassed(since_hour_start)
           cur == IF passed THEN 0 ELSE current_requests
           r == [IdleThread EXCEPT !.kind = k, !.phase = "meta"]
           c == [NoCall EXCEPT !.pre_requests = current_requests,
                               !.pre_hour = since_hour_start,
                               !.did_reset = passed]
       IN /\ since_hour_start' = IF passed THEN 0 ELSE since_hour_start
          /\ current_requests' = cur
          /\ IF QuotaExhausted(cur)
             THEN /\ SetTh(t, IdleThread)
                  /\ SetCall(t, [c EXCEPT !.get_outcome = "RateLimitError_quota",
                                          !.outcome = "RateLimitError_quota"])
             ELSE LoopTop(t, r, c)
    /\ UNCHANGED <<request_lock, since_last_request, min_request_interval>>
    /\ UNCHANGED <<crawlVars, trackerVars, jobVars>>

CheckHourlyBudget(t, k) == EnterGet(t, k, MaxCalls)

\* client.py:92-94 (get) and 314 (get_repository_file): the write of
\* last_request_time, the count (get only), and the release of the lock
RecordRequest(t, r) ==
    /\ since_last_request' = 0
    /\ current_requests' = IF r.phase = "meta" THEN current_requests + 1 ELSE current_requests
    /\ request_lock' = "free"
    /\ SetTh(t, [r EXCEPT !.pc = "http", !.elapsed = 0, !.admit = 0])
    /\ SetCall(t, [call EXCEPT !.stamps = @ + 1,
                                  !.counted = IF r.phase = "meta" THEN @ + 1 ELSE @])

\* client.py:82-85 and 308-311: take the lock, read the clock, compare
PaceEnter(t) ==
    /\ th[t].pc = "pace"
    /\ request_lock = "free"
    /\ LET elapsed == since_last_request
           r == [th[t] EXCEPT !.elapsed = elapsed, !.admit = min_request_interval]
       IN IF PaceSleepTime(elapsed, min_request_interval) > 0
          THEN /\ request_lock' = t
               /\ SetTh(t, [r EXCEPT !.pc = "pace_calc"])
               /\ UNCHANGED <<since_last_request, current_requests, call>>
          ELSE RecordRequest(t, r)
    /\ UNCHANGED <<since_hour_start, min_request_interval, calls>>
    /\ UNCHANGED <<crawlVars, trackerVars, jobVars>>

\* client.py:86-90 and 312-313: sleep_time from a second read of
\* min_request_interval, then time.sleep with the lock held
PaceSleep(t) ==
    /\ th[t].pc = "pace_calc"
    /\ LET sleep_time == min_request_interval - th[t].elapsed
       IN SetTh(t, [th[t] EXCEPT !.pc = "pace_sleep", !.sleep_left = Min(sleep_time, AgeCap)])
    /\ SetCall(t, [call EXCEPT !.paced = @ + 1])
    /\ UNCHANGED <<request_lock, since_last_request, since_hour_start,
                   min_request_interval, current_requests, calls>>
    /\ UNCHANGED <<crawlVars, trackerVars, jobVars>>

\* the sleep is over: client.py:92-94, 314
PaceWake(t) ==
    /\ th[t].pc = "pace_sleep"
    /\ th[t].sleep_left = 0
    /\ RecordRequest(t, th[t])
    /\ UNCHANGED <<since_hour_start, min_request_interval, calls>>
    /\ UNCHANGED <<crawlVars, trackerVars, jobVars>>

\* client.py:96-159: one HTTP attempt of get and the handling of its outcome
HttpResponse(t, r) ==
    /\ th[t].pc = "http"
    /\ th[t].phase = "meta"
    /\  LET d == Decide(r, th[t].retries)
            c == [call EXCEPT !.attempts = @ + 1,
                              !.seen = @ \cup {Seen(r)},
                              !.last = Seen(r),
                              !.last_remaining = r.remaining,
                              !.get_outcome = IF d \in {"retry_backoff", "retry_wait"}
                                              THEN "none" ELSE d]
        IN /\ r.body = "file" => th[t].kind = "file"
           /\ min_request_interval' =
                  IF r.status = "neterr" THEN min_request_interval
                  ELSE AdaptInterval(min_request_interval, r.remaining)
           /\ CASE d = "retry_backoff" ->
                     /\ SetTh(t, [th[t] EXCEPT !.retries = @ + 1, !.pc = "backoff",
                                     !.sleep_left = Min(BackoffTime(th[t].retries + 1), AgeCap)])
                     /\ SetCall(t, [c EXCEPT !.waits = @ + 1])
                [] d = "retry_wait" ->
                     /\ SetTh(t, [th[t] EXCEPT !.retries = @ + 1, !.pc = "backoff",
                                     !.sleep_left = Min(Min(RateLimitWait(r.delta), MaxWaitSleep), AgeCap)])
                     /\ SetCall(t, [c EXCEPT !.waits = @ + 1])
                [] d = "return" /\ th[t].kind = "file" /\ r.body = "file" ->
                     \* client.py:300-303: on to the download loop
                     /\ SetTh(t, [th[t] EXCEPT !.phase = "download", !.pc = "pace",
                                     !.retry_count = 0])
                     /\ SetCall(t, c)
                [] d = "return" /\ th[t].kind = "file" /\ r.body # "file" ->
                     \* client.py:352
                     /\ SetTh(t, IdleThread)
                     /\ SetCall(t, [c EXCEPT !.outcome = "GitHubAPIError_format"])
                [] d = "return" /\ th[t].kind = "get" ->
                     /\ SetTh(t, IdleThread)
                     /\ SetCall(t, [c EXCEPT !.outcome = "ok"])
                [] OTHER ->
                     /\ SetTh(t, IdleThread)
                     /\ SetCall(t, [c EXCEPT !.outcome = d])
    /\ UNCHANGED <<request_lock, since_last_request, since_hour_start,
                   current_requests, calls>>
    /\ UNCHANGED <<crawlVars, trackerVars, jobVars>>

HttpAttempt(t) == \E r \in Responses : HttpResponse(t, r)

\* client.py:316-350: one download attempt of get_repository_file
DownloadAttempt(t) ==
    /\ th[t].pc = "http"
    /\ th[t].phase = "download"
    /\ \E res \in DownloadResults :
        LET c == [call EXCEPT !.downloads = @ + 1, !.last_download = res]
            rc == th[t].retry_count + 1
        IN CASE res = "ok" ->
                  /\ SetTh(t, IdleThread)
                  /\ SetCall(t, [c EXCEPT !.outcome = "ok"])
             [] DownloadRetry(res, rc) ->
                  /\ SetTh(t, [th[t] EXCEPT !.retry_count = rc, !.pc = "backoff",
                                  !.sleep_left = Min(DownloadBackoff(rc), AgeCap)])
                  /\ SetCall(t, [c EXCEPT !.waits = @ + 1])
             [] res = "connection" /\ ~DownloadRetry(res, rc) ->
                  /\ SetTh(t, IdleThread)
                  /\ SetCall(t, [c EXCEPT !.outcome = "GitHubAPIError_download_retries"])
             [] OTHER ->
                  /\ SetTh(t, IdleThread)
                  /\ SetCall(t, [c EXCEPT !.outcome = "GitHubAPIError_download"])
    /\ UNCHANGED <<request_lock, since_last_request, since_hour_start,
                   min_request_interval, current_requests, calls>>
    /\ UNCHANGED <<crawlVars, trackerVars, jobVars>>

\* time.sleep of a retry is over: back to the top of the loop (client.py:80, 305)
BackoffWake(t) ==
    /\ th[t].pc = "backoff"
    /\ th[t].sleep_left = 0
    /\ IF th[t].phase = "meta"
       THEN LoopTop(t, th[t], call)
       ELSE IF th[t].retry_count < GITHUB_DOWNLOAD_RETRIES
            THEN /\ SetTh(t, [th[t] EXCEPT !.pc = "pace"])
                 /\ UNCHANGED call
            ELSE /\ SetTh(t, IdleThread)
                 /\ SetCall(t, [call EXCEPT !.outcome = "GitHubAPIError_download_max"])
    /\ UNCHANGED <<request_lock, since_last_request, since_hour_start,
                   min_request_interval, current_requests, calls>>
    /\ UNCHANGED <<crawlVars, trackerVars, jobVars>>

\* the clock advances by a second, or by more than an hour
TickSteps == {1, HourSeconds + 1}

Tick ==
    /\ \E d \in TickSteps :
        /\ since_last_request' = Min(since_last_request + d, AgeCap)
        /\ since_hour_start' =
               IF since_hour_start + d > HourSeconds THEN HourSeconds + 1
               ELSE since_hour_start
        /\ th' = [t \in AllThreads |-> [th[t] EXCEPT !.sleep_left = Max(@ - d, 0)]]
    /\ UNCHANGED <<request_lock, min_request_interval, current_requests, call, calls>>
    /\ UNCHANGED <<crawlVars, trackerVars, jobVars>>

\* the steps of the threads T, and of the clock
Step(T) ==
    \/ \E t \in T, k \in {"get", "file"} : CheckHourlyBudget(t, k)
    \/ \E t \in T : PaceEnter(t)
    \/ \E t \in T : PaceSleep(t)
    \/ \E t \in T : PaceWake(t)
    \/ \E t \in T : HttpAttempt(t)
    \/ \E t \in T : DownloadAttempt(t)
    \/ \E t \in T : BackoffWake(t)
    \/ Tick

\* worker threads calling the client concurrently
NextClient == Step(Threads)
SpecClient == InitClient /\ [][NextClient]_vars

\* one caller, calling get and get_repository_file one call after the other
NextGet == Step({Observed})
SpecGet == InitClient /\ [][NextGet]_vars

\* The threads of a crawl, each calling get once inside one hourly window while
\* the network is down: every attempt ends in a RequestException (client.py:151).
NextOutage ==
    \/ \E t \in CrawlThreads : EnterGet(t, "get", Cardinality(CrawlThreads))
    \/ \E t \in CrawlThreads : PaceEnter(t)
    \/ \E t \in CrawlThreads : PaceSleep(t)
    \/ \E t \in CrawlThreads : PaceWake(t)
    \/ \E t \in CrawlThreads : HttpResponse(t, NetError)
    \/ \E t \in CrawlThreads : BackoffWake(t)
    \/ Tick /\ since_hour_start' = since_hour_start
\* the hour starts at the last count at which the budget check admits a call
InitOutage == InitClient /\ current_requests = requests_per_hour - QuotaFloor - 1
SpecOutage == InitOutage /\ [][NextOutage]_vars

(***************************************************************************)
(* RepositoryFetcher._fetch_directory_content and its helpers.             *)
(***************************************************************************)
\* _is_relevant_folder: some keyword is a substring of the lower-cased name
is_relevant_folder_Exact(folder_name) == Lower(folder_name) \in RELEVANT_FOLDERS
is_relevant_folder(folder_name) ==
    \E relevant \in RELEVANT_FOLDERS : Contains(relevant, Lower(folder_name))

\* _is_text_file
is_text_file(filename) ==
    \E ext \in TEXT_FILE_EXTENSIONS : EndsWith(Lower(filename), ext)

\* item["size"] / 1024 / 1024 <= MAX_FILE_SIZE_MB
FitsSize_Strict(size) == size < MAX_FILE_SIZE_MB * BytesPerMB
FitsSize(size) == size <= MAX_FILE_SIZE_MB * BytesPerMB

\* any(part for part in path.split("/") if self._is_relevant_folder(part))
AnyRelevantPart(path) == \E i \in 1..Len(path) : is_relevant_folder(path[i])

\* the test of lines 126-134 on a "dir" item of the listing of path
DirSelected_NameOnly(item_name, path) == is_relevant_folder(item_name)
DirSelected(item_name, path) ==
    \/ is_relevant_folder(item_name)
    \/ is_relevant_folder(JoinPath(path))
    \/ path # <<>> /\ AnyRelevantPart(path)

\* the test of lines 137-142 on the "file" items of the listing of path
InRelevantFolder(path) ==
    is_relevant_folder(JoinPath(path)) \/ AnyRelevantPart(path)

\* the listing of directory d
ChildFiles(d) == {f \in tree : f.dir = d}
ChildDirs(d) ==
    {SubSeq(f.dir, 1, Len(d) + 1) :
        f \in {g \in tree : Len(g.dir) > Len(d) /\ SubSeq(g.dir, 1, Len(d)) = d}}

\* subdirs_to_process
SubdirsToProcess_RelevantFirst(d) ==
    {c \in ChildDirs(d) :
        \/ d # <<>> /\ AnyRelevantPart(d)
        \/ ItemName(c) \notin IGNORED_DIRS /\ DirSelected(ItemName(c), d)}
SubdirsToProcess(d) ==
    {c \in ChildDirs(d) :
        ItemName(c) \notin IGNORED_DIRS /\ DirSelected(ItemName(c), d)}

\* the files of d that are handed to _process_file
FilesToProcess(d) ==
    {f \in ChildFiles(d) :
        InRelevantFolder(d) /\ is_text_file(f.name) /\ FitsSize(f.size)}

\* a set in the order of the listing
RECURSIVE SeqOf(_)
SeqOf(S) ==
    IF S = {} THEN <<>>
    ELSE LET x == CHOOSE y \in S : TRUE IN <<x>> \o SeqOf(S \ {x})

\* _process_file: the record of a file; keys are the optional keys it carries
process_file_Unmarked(f, ok) ==
    [path |-> ItemPath(f), keys |-> IF ok THEN {"local_path"} ELSE {}]
process_file(f, ok) ==
    [path |-> ItemPath(f), keys |-> IF ok THEN {"local_path"} ELSE {"error"}]

\* files_data after the loop over the listing; bad: the files whose download
\* or cache write raises
OwnRecords_Abort(d, bad) ==
    IF bad = {} THEN [i \in 1..Len(SeqOf(FilesToProcess(d))) |->
                         process_file(SeqOf(FilesToProcess(d))[i], TRUE)]
    ELSE <<>>
OwnRecords(d, bad) ==
    LET fs == SeqOf(FilesToProcess(d))
    IN [i \in 1..Len(fs) |-> process_file(fs[i], fs[i] \notin bad)]

\* files_data.extend(result) over the futures, in the order of submission
RECURSIVE Extend(_, _)
Extend(files_data, dirs) ==
    IF dirs = <<>> THEN files_data
    ELSE Extend(files_data \o act[Head(dirs)].files_data, Tail(dirs))

\* a worker of the pool of the parent is free
PoolHasRoom_Shared(d) ==
    \/ d = Root
    \/ Cardinality({c \in AllDirs \ {Root} : act[c].st = "running"}) < max_workers

PoolHasRoom(d) ==
    \/ d = Root
    \/ Cardinality({c \in SubdirsToProcess(Parent(d)) : act[c].st = "running"})
           < max_workers

\* no crawl has been started; the client is idle
InitCrawl ==
    /\ request_lock = "free"
    /\ since_last_request = AgeCap
    /\ since_hour_start = 0
    /\ min_request_interval = InitialInterval
    /\ current_requests = 0
    /\ th = [t \in AllThreads |-> IdleThread]
    /\ call = NoCall
    /\ calls = 0
    /\ tree \in Trees
    /\ act = [d \in AllDirs |-> NoActivation]
    /\ processed = {}
    /\ failed = {}
    /\ content = NoContent
    /\ parse = NoParse
    /\ TrackerAtRest
    /\ JobsAtRest

\* the progress callback receives the values, in order
Progressed(values) == content' = [content EXCEPT !.sink = @ \o values]
\* the callback is only called by the activation of the root directory
RootProgress_EveryActivation(d, values) == Progressed(values)

RootProgress(d, values) ==
    IF d = Root THEN Progressed(values) ELSE UNCHANGED content

\* the cache directory of the repository is created, or mkdir raises
MkdirOutcomes == {"ok", "OSError"}

\* fetch_content_for_dataset up to the call of _fetch_directory_content for
\* the root: callback(10); fetch_relevant_content creates the cache directory,
\* callback(15), and starts with the root directory.  An exception reaches
\* the handler of fetch_content_for_dataset: callback(-1) and raise.  (A
\* failure of the branch lookup is absorbed and changes nothing here.)
fetch_relevant_content ==
    /\ content.pc = "idle"
    /\ act[Root].st = "none"
    /\ \E mkdir \in MkdirOutcomes :
        IF mkdir = "ok"
        THEN /\ act' = [act EXCEPT ![Root].st = "queued"]
             /\ content' = [pc |-> "crawling", sink |-> <<10, 15>>]
        ELSE /\ content' = [pc |-> "raised", sink |-> <<10, ErrorSentinel>>]
             /\ UNCHANGED act
    /\ UNCHANGED <<tree, processed, failed, parse>>
    /\ UNCHANGED <<clientVars, trackerVars, jobVars>>

\* _fetch_directory_content up to the submission of the subdirectories:
\* the listing, the loop over its items, the futures
fetch_directory_content(d) ==
    /\ act[d].st = "queued"
    /\ PoolHasRoom(d)
    /\ \E listing \in {"ok", "GitHubAPIError"} :
        IF listing = "GitHubAPIError"
        THEN /\ act' = [act EXCEPT ![d] = [st |-> "done", listing |-> listing,
                                            files_data |-> <<>>]]
             /\ UNCHANGED <<processed, failed, content>>
        ELSE \E bad \in SUBSET FilesToProcess(d) :
             /\ RootProgress(d, <<20, 30>>)
             /\ act' = [x \in AllDirs |->
                          IF x = d
                          THEN [st |-> "running", listing |-> listing,
                                files_data |-> OwnRecords(d, bad)]
                          ELSE IF x \in SubdirsToProcess(d)
                          THEN [act[x] EXCEPT !.st = "queued"]
                          ELSE act[x]]
             /\ processed' = processed \cup FilesToProcess(d)
             /\ failed' = failed \cup bad
    /\ UNCHANGED <<tree, parse>>
    /\ UNCHANGED <<clientVars, trackerVars, jobVars>>

\* the results of the futures are collected and files_data is returned
collect_results(d) ==
    /\ act[d].st = "running"
    /\ \A c \in SubdirsToProcess(d) : act[c].st = "done"
    /\ act' = [act EXCEPT ![d] =
                  [st |-> "done", listing |-> act[d].listing,
                   files_data |-> Extend(act[d].files_data,
                                         SeqOf(SubdirsToProcess(d)))]]
    /\ RootProgress(d, <<80>>)
    /\ UNCHANGED <<tree, processed, failed, parse>>
    /\ UNCHANGED <<clientVars, trackerVars, jobVars>>

\* fetch_relevant_content has returned the list of the root directory:
\* callback(90), callback(100), return content_files
fetch_content_return ==
    /\ content.pc = "crawling"
    /\ act[Root].st = "done"
    /\ content' = [pc |-> "returned", sink |-> content.sink \o <<90, 100>>]
    /\ UNCHANGED <<tree, act, processed, failed, parse>>
    /\ UNCHANGED <<clientVars, trackerVars, jobVars>>

NextCrawl ==
    \/ fetch_relevant_content
    \/ \E d \in AllDirs : fetch_directory_content(d)
    \/ \E d \in AllDirs : collect_results(d)
    \/ fetch_content_return
SpecCrawl == InitCrawl /\ [][NextCrawl]_vars

\* The crawl with its scheduling: a pool runs a queued call as soon as one of
\* its workers is free, and every HTTP call returns or fails (GITHUB_TIMEOUT),
\* so a step that can be taken is taken in the end.
SpecCrawlFair == SpecCrawl /\ WF_vars(NextCrawl)

(***************************************************************************)
(* TaskTracker: its operations, called in any order by any caller.         *)
(***************************************************************************)
Store(id, task) == tasks' = (id :> task) @@ tasks
CountCall(op, id) ==
    /\ tracker_calls' = tracker_calls + 1
    /\ last_call' = [op |-> op, id |-> id]

\* create_task(task_type, params, description): writes the record of the new
\* id and returns the id
create_task(type) ==
    /\ tracker_calls < MaxTrackerCalls
    /\ Store(TaskId(type, clock), NewTask(type, clock))
    /\ ids_created' = Append(ids_created, [id |-> TaskId(type, clock),
                                            type |-> type, at |-> clock])
    /\ CountCall("create_task", TaskId(type, clock))
    /\ UNCHANGED <<clock, last_list>>
    /\ UNCHANGED <<clientVars, crawlVars, jobVars>>

\* update_task_progress(task_id, progress, stage, stage_progress)
update_task_progress(id, percent, stage, stage_progress) ==
    /\ tracker_calls < MaxTrackerCalls
    /\ id \in DOMAIN tasks
    /\ Store(id, UpdatedTask(tasks[id], percent, stage, stage_progress, clock))
    /\ CountCall("update_task_progress", id)
    /\ UNCHANGED <<clock, ids_created, last_list>>
    /\ UNCHANGED <<clientVars, crawlVars, jobVars>>

\* complete_task(task_id, success, result)
complete_task(id, success, result) ==
    /\ tracker_calls < MaxTrackerCalls
    /\ id \in DOMAIN tasks
    /\ Store(id, CompletedTask(tasks[id], success, result, clock))
    /\ CountCall("complete_task", id)
    /\ UNCHANGED <<clock, ids_created, last_list>>
    /\ UNCHANGED <<clientVars, crawlVars, jobVars>>

\* cancel_task(task_id)
cancel_task(id) ==
    /\ tracker_calls < MaxTrackerCalls
    /\ id \in DOMAIN tasks
    /\ Store(id, CancelledTask(tasks[id], clock))
    /\ CountCall("cancel_task", id)
    /\ UNCHANGED <<clock, ids_created, last_list>>
    /\ UNCHANGED <<clientVars, crawlVars, jobVars>>

\* list_resumable_tasks()
list_resumable_tasks ==
    /\ tracker_calls < MaxTrackerCalls
    /\ last_list' = ListResumable(tasks, clock)
    /\ CountCall("list_resumable_tasks", <<>>)
    /\ UNCHANGED <<tasks, clock, ids_created>>
    /\ UNCHANGED <<clientVars, crawlVars, jobVars>>

\* time passes
ClockTick ==
    /\ tracker_calls < MaxTrackerCalls
    /\ \E d \in ClockSteps : clock' = clock + d
    /\ CountCall("tick", <<>>)
    /\ UNCHANGED <<tasks, ids_created, last_list>>
    /\ UNCHANGED <<clientVars, crawlVars, jobVars>>

\* nothing has been called yet: the client as constructed, no crawl, an
\* empty task store, no job
InitIdle ==
    /\ request_lock = "free"
    /\ since_last_request = AgeCap
    /\ since_hour_start = 0
    /\ min_request_interval = InitialInterval
    /\ current_requests = 0
    /\ th = [t \in AllThreads |-> IdleThread]
    /\ call = NoCall
    /\ calls = 0
    /\ CrawlAtRest
    /\ parse = NoParse
    /\ TrackerAtRest
    /\ JobsAtRest

NextTracker ==
    \/ \E type \in TaskTypes : create_task(type)
    \/ \E id \in DOMAIN tasks, u \in Updates :
           update_task_progress(id, u[1], u[2], u[1])
    \/ \E id \in DOMAIN tasks, success \in BOOLEAN :
           complete_task(id, success, IF success THEN "dataset" ELSE "error")
    \/ \E id \in DOMAIN tasks : cancel_task(id)
    \/ list_resumable_tasks
    \/ ClockTick
SpecTracker == InitIdle /\ [][NextTracker]_vars

(***************************************************************************)
(* ContentFetcher.fetch_organization_repositories                          *)
(* (content_fetcher.py:50-132): the organization's repositories, page by   *)
(* page, with a cancellation checkpoint at the top of the loop.            *)
(***************************************************************************)
PER_PAGE == 100
\* a last page
ShortPage == 7
PageSizes == {0, ShortPage, PER_PAGE}
\* public_repos of the organization
Totals == {0, PER_PAGE + ShortPage, 2 * PER_PAGE + ShortPage}
PageOutcomes == {"page", "StopIteration", "error"}

\* processed / max(1, total_repos) * 100, to the whole percent
Percent(done, total_repos) ==
    (done * 100) \div (IF total_repos < 1 THEN 1 ELSE total_repos)

\* _cancellation_event and _cancellation_event.is_set()
Cancelled_Unchecked(has_event, is_set) == FALSE
Cancelled(has_event, is_set) == has_event /\ is_set

Callback(o, percent, text) ==
    [o EXCEPT !.messages = Append(@, [percent |-> percent, text |-> text])]
\* return all_repos
ReturnAll_Reported(o) ==
    Callback([o EXCEPT !.pc = "done", !.outcome = "returned",
                       !.result = o.processed],
             Percent(o.processed, o.total_repos), "Fetched")
ReturnAll(o) ==
    [o EXCEPT !.pc = "done", !.outcome = "returned", !.result = o.processed]

\* the call, up to the loop: the organization is found
fetch_organization_repositories(total, given) ==
    /\ org.pc = "idle"
    /\ org' = Callback([org EXCEPT !.pc = "check", !.has_event = given,
                                   !.total_repos = total], 0, "Found")
    /\ UNCHANGED <<cancellation_event, job, multi>>
    /\ UNCHANGED <<clientVars, crawlVars, trackerVars>>

\* the call when the organization request fails: the error is reported at
\* line 86 and again at line 131, and raised
org_info_fails(given) ==
    /\ org.pc = "idle"
    /\ org' = Callback(Callback([org EXCEPT !.pc = "done", !.has_event = given,
                                            !.outcome = "raised"],
                                0, "Error"), 0, "Error")
    /\ UNCHANGED <<cancellation_event, job, multi>>
    /\ UNCHANGED <<clientVars, crawlVars, trackerVars>>

\* the top of the loop (lines 91-97)
page_checkpoint ==
    /\ org.pc = "check"
    /\ org' = IF Cancelled(org.has_event, cancellation_event)
              THEN Callback([org EXCEPT !.pc = "done", !.outcome = "returned",
                                        !.result = 0],
                            Percent(org.processed, org.total_repos),
                            "Operation cancelled")
              ELSE [org EXCEPT !.pc = "fetch", !.checks = @ + 1]
    /\ UNCHANGED <<cancellation_event, job, multi>>
    /\ UNCHANGED <<clientVars, crawlVars, trackerVars>>

\* one page request and what follows it in the loop body (lines 99-124)
get_organization_repos(kind, size) ==
    /\ org.pc = "fetch"
    /\ org.requested < MaxPages
    /\ LET asked == [org EXCEPT !.requested = @ + 1]
           got == Callback([asked EXCEPT !.processed = @ + size],
                           Percent(org.processed + size, org.total_repos),
                           "Fetched")
       IN org' = CASE kind = "error" ->
                         Callback([asked EXCEPT !.pc = "done",
                                                !.outcome = "raised"], 0, "Error")
                   [] kind = "StopIteration" -> ReturnAll(asked)
                   [] kind = "page" /\ size = 0 -> ReturnAll(asked)
                   [] kind = "page" /\ size > 0 /\ size < PER_PAGE -> ReturnAll(got)
                   [] OTHER -> [got EXCEPT !.pc = "check", !.page = @ + 1]
    /\ UNCHANGED <<cancellation_event, job, multi>>
    /\ UNCHANGED <<clientVars, crawlVars, trackerVars>>

\* threading.Event.set(), by whoever holds the event
set_cancellation ==
    /\ ~cancellation_event
    /\ cancellation_event' = TRUE
    /\ UNCHANGED <<job, org, multi>>
    /\ UNCHANGED <<clientVars, crawlVars, trackerVars>>

NextOrgList ==
    \/ \E total \in Totals, given \in BOOLEAN :
           fetch_organization_repositories(total, given)
    \/ \E given \in BOOLEAN : org_info_fails(given)
    \/ page_checkpoint
    \/ \E kind \in PageOutcomes, size \in PageSizes :
           get_organization_repos(kind, size)
    \/ set_cancellation
SpecOrgList == InitIdle /\ [][NextOrgList]_vars


(***************************************************************************)
(* DatasetCreator.create_dataset_from_repository and _process_repository   *)
(* (dataset_creator.py:258-459): one repository job and the task record it *)
(* keeps. Every progress callback is an update_task_progress with the      *)
(* message as the stage (lines 294-303).                                   *)
(***************************************************************************)
FetchOutcomes == {"files", "empty", "raises"}
\* why _process_repository returned False
FailureCauses == {"exception", "no_content", "upload_failed"}

Progress(task, percent, message) == UpdatedTask(task, percent, message, percent, clock)

\* the job's writes to the tracker: the record, the number of calls, the last
TrackerWrite(id, task, n, op) ==
    /\ tasks' = (id :> task) @@ tasks
    /\ tracker_calls' = tracker_calls + n
    /\ last_call' = [op |-> op, id |-> id]
\* the job's own task
JobTask == tasks[job.task_id]

\* lines 331-335 and 337-341: the progress message, then cancel_task
CancelJob_Unfinalized(task, percent) ==
    Progress(task, percent, "Operation cancelled")
CancelJob(task, percent) ==
    CancelledTask(Progress(task, percent, "Operation cancelled"), clock)

\* is processing_result False taken for a cancellation (line 331)
TakenForCancelled(processing_result, is_set) ==
    processing_result = "False" \/ is_set

\* the call: the task is created (lines 282-292)
create_dataset_from_repository(given) ==
    /\ job.pc = "idle"
    /\ job' = [job EXCEPT !.pc = "early_check", !.has_event = given,
                          !.task_id = TaskId("repository", clock)]
    /\ TrackerWrite(TaskId("repository", clock), NewTask("repository", clock),
                    1, "create_task")
    /\ ids_created' = Append(ids_created, [id |-> TaskId("repository", clock),
                                            type |-> "repository", at |-> clock])
    /\ UNCHANGED <<clock, last_list, cancellation_event, org, multi>>
    /\ UNCHANGED <<clientVars, crawlVars>>

\* the call with the task_id of a job that ended cancelled or failed, as the
\* resume of a listed task does: no task is created (line 282)
resume_dataset_from_repository(given) ==
    /\ job.pc = "done"
    /\ ~job.resumed
    /\ job.outcome \in {"cancelled", "error"}
    /\ job' = [NoJob EXCEPT !.pc = "early_check", !.has_event = given,
                            !.task_id = job.task_id, !.resumed = TRUE]
    /\ UNCHANGED <<trackerVars, cancellation_event, org, multi>>
    /\ UNCHANGED <<clientVars, crawlVars>>

\* the early cancellation check (lines 305-309)
early_cancellation_check ==
    /\ job.pc = "early_check"
    /\ IF Cancelled(job.has_event, cancellation_event)
       THEN /\ job' = [job EXCEPT !.pc = "done", !.flag_seen = TRUE,
                                  !.outcome = "cancelled"]
            /\ TrackerWrite(job.task_id, CancelJob(JobTask, 10), 2, "cancel_task")
       ELSE /\ job' = [job EXCEPT !.pc = "announce"]
            /\ UNCHANGED <<tasks, tracker_calls, last_call>>
    /\ UNCHANGED <<clock, ids_created, last_list, cancellation_event, org, multi>>
    /\ UNCHANGED <<clientVars, crawlVars>>

\* lines 311-316, and 357-374 when a progress callback raises there
announce(raises) ==
    /\ job.pc = "announce"
    /\ IF raises
       THEN /\ job' = [job EXCEPT !.pc = "done", !.cause = "callback_raised",
                                  !.outcome = "error"]
            /\ TrackerWrite(job.task_id,
                   CompletedTask(Progress(Progress(JobTask, 20, "Fetching repository"),
                                          40, "Error"),
                                 FALSE, "error", clock),
                   3, "complete_task")
       ELSE /\ job' = [job EXCEPT !.pc = "process"]
            /\ TrackerWrite(job.task_id,
                   Progress(Progress(JobTask, 20, "Fetching repository"),
                            25, "Processing repository contents"),
                   2, "update_task_progress")
    /\ UNCHANGED <<clock, ids_created, last_list, cancellation_event, org, multi>>
    /\ UNCHANGED <<clientVars, crawlVars>>

\* _process_repository up to the fetch (lines 401-419)
process_repository_start ==
    /\ job.pc = "process"
    /\ IF Cancelled(job.has_event, cancellation_event)
       THEN /\ job' = [job EXCEPT !.pc = "finish", !.flag_seen = TRUE,
                                  !.processing_result = "False"]
            /\ UNCHANGED <<tasks, tracker_calls, last_call>>
       ELSE /\ job' = [job EXCEPT !.pc = "fetch"]
            /\ TrackerWrite(job.task_id,
                   Progress(JobTask, 30, "Fetching repository content..."),
                   1, "update_task_progress")
    /\ UNCHANGED <<clock, ids_created, last_list, cancellation_event, org, multi>>
    /\ UNCHANGED <<clientVars, crawlVars>>

\* fetch_content_for_dataset with fetch_progress (lines 412-423): its last
\* progress is 30 + 100 * 0.4, or 30 - 0.4 before it raises, which the
\* except branch of lines 457-459 turns into False
fetch_content_for_dataset(outcome) ==
    /\ job.pc = "fetch"
    /\ IF outcome = "raises"
       THEN /\ job' = [job EXCEPT !.pc = "finish", !.cause = "exception",
                                  !.processing_result = "False"]
            /\ TrackerWrite(job.task_id,
                   Progress(JobTask, 29, "Fetching repository content..."),
                   1, "update_task_progress")
       ELSE /\ job' = [job EXCEPT !.pc = "after_fetch", !.content = outcome]
            /\ TrackerWrite(job.task_id,
                   Progress(JobTask, 70, "Fetching repository content..."),
                   3, "update_task_progress")
    /\ UNCHANGED <<clock, ids_created, last_list, cancellation_event, org, multi>>
    /\ UNCHANGED <<clientVars, crawlVars>>

\* after the fetch (lines 425-436)
after_fetch ==
    /\ job.pc = "after_fetch"
    /\ IF Cancelled(job.has_event, cancellation_event)
       THEN /\ job' = [job EXCEPT !.pc = "finish", !.flag_seen = TRUE,
                                  !.processing_result = "False"]
            /\ UNCHANGED <<tasks, tracker_calls, last_call>>
       ELSE /\ job' = IF job.content = "empty"
                      THEN [job EXCEPT !.pc = "finish", !.cause = "no_content",
                                       !.processing_result = "False"]
                      ELSE [job EXCEPT !.pc = "push"]
            /\ TrackerWrite(job.task_id, Progress(JobTask, 70, "Processing files..."),
                            1, "update_task_progress")
    /\ UNCHANGED <<clock, ids_created, last_list, cancellation_event, org, multi>>
    /\ UNCHANGED <<clientVars, crawlVars>>

\* create_and_push_dataset (lines 438-449), which returns (False, None) for
\* every failure (lines 185-256)
create_and_push_dataset(success) ==
    /\ job.pc = "push"
    /\ job' = [job EXCEPT !.pc = "final_check",
                          !.success = IF success THEN "True" ELSE "False"]
    /\ TrackerWrite(job.task_id,
           Progress(JobTask, IF success THEN 100 ELSE 70, "Creating dataset..."),
           1, "update_task_progress")
    /\ UNCHANGED <<clock, ids_created, last_list, cancellation_event, org, multi>>
    /\ UNCHANGED <<clientVars, crawlVars>>

\* the end of _process_repository (lines 451-455)
process_repository_end ==
    /\ job.pc = "final_check"
    /\ job' = IF Cancelled(job.has_event, cancellation_event)
              THEN [job EXCEPT !.pc = "finish", !.flag_seen = TRUE,
                               !.processing_result = "False"]
              ELSE [job EXCEPT !.pc = "finish", !.processing_result = job.success,
                               !.cause = IF job.success = "False"
                                         THEN "upload_failed" ELSE @]
    /\ UNCHANGED <<trackerVars, cancellation_event, org, multi>>
    /\ UNCHANGED <<clientVars, crawlVars>>

\* what create_dataset_from_repository does with the result (lines 330-355)
finish ==
    /\ job.pc = "finish"
    /\ IF TakenForCancelled(job.processing_result,
                            Cancelled(job.has_event, cancellation_event))
       THEN /\ job' = [job EXCEPT !.pc = "done", !.outcome = "cancelled",
                          !.flag_seen = @ \/ Cancelled(job.has_event, cancellation_event)]
            /\ TrackerWrite(job.task_id, CancelJob(JobTask, 30), 2, "cancel_task")
       ELSE /\ job' = [job EXCEPT !.pc = "done", !.outcome = "success"]
            /\ TrackerWrite(job.task_id,
                   CompletedTask(Progress(JobTask, 100, "Dataset creation completed"),
                                 TRUE, "dataset", clock),
                   2, "complete_task")
    /\ UNCHANGED <<clock, ids_created, last_list, cancellation_event, org, multi>>
    /\ UNCHANGED <<clientVars, crawlVars>>

NextJob ==
    \/ \E given \in BOOLEAN : create_dataset_from_repository(given)
    \/ \E given \in BOOLEAN : resume_dataset_from_repository(given)
    \/ early_cancellation_check
    \/ \E raises \in BOOLEAN : announce(raises)
    \/ process_repository_start
    \/ \E outcome \in FetchOutcomes : fetch_content_for_dataset(outcome)
    \/ after_fetch
    \/ \E success \in BOOLEAN : create_and_push_dataset(success)
    \/ process_repository_end
    \/ finish
    \/ set_cancellation
    \/ ClockTick
SpecJob == InitIdle /\ [][NextJob]_vars


(***************************************************************************)
(* ContentFetcher.fetch_multiple_repositories (content_fetcher.py:217-334):*)
(* the repositories of an organization, crawled in batches on the global   *)
(* executor. A repository is its index; its files stand for themselves.    *)
(***************************************************************************)
BATCH_SIZE == 5
\* how the crawl of one repository ends for the batch loop: a list of files,
\* an empty list, an exception (caught at 246-251), or no result within the
\* timeout of line 274
RepoOutcomes == {"files", "empty", "raised", "timeout"}

\* batch_size = min(5, len(repos))
batch_size(n) == Min(BATCH_SIZE, n)
\* repos[i : i + batch_size], by the number of its first repository
Batch_Inclusive(first, n) == first .. Min(first + batch_size(n), n)
Batch(first, n) == first .. Min(first + batch_size(n) - 1, n)
\* the repositories of a set in the order of the list
InListOrder(S) ==
    [i \in 1..Cardinality(S) |->
        CHOOSE r \in S : Cardinality({q \in S : q < r}) = i - 1]

\* batch_content (lines 271-292)
BatchContent_Abort(batch, outs) ==
    IF \E r \in batch : outs[r] = "raised" THEN {}
    ELSE {r \in batch : outs[r] = "files"}
BatchContent(batch, outs) == {r \in batch : outs[r] = "files"}

\* 20 + 50 * min((i + batch_size) / len(repos), 1.0), to the whole percent
BatchProgress(first, n) == 20 + (50 * Min(first - 1 + batch_size(n), n)) \div n

\* the call and the listing of the repositories (lines 219-238):
\* fetch_org_repositories reports 5 and 20 (lines 138-150)
fetch_multiple_repositories(n) ==
    /\ multi.pc = "idle"
    /\ multi' = IF n = 0
                THEN [multi EXCEPT !.pc = "done", !.progress = 70,
                                   !.outcome = "returned",
                                   !.sink = <<5, 20, 70>>]
                ELSE [multi EXCEPT !.pc = "batch", !.repos = n, !.progress = 20,
                                   !.sink = <<5, 20, 20>>]
    /\ UNCHANGED <<cancellation_event, job, org>>
    /\ UNCHANGED <<clientVars, crawlVars, trackerVars>>

\* the call of run_update (main.py:963-967), which passes _cancellation_event:
\* the function has no such parameter
run_update_fetch_content ==
    /\ multi.pc = "idle"
    /\ multi' = [multi EXCEPT !.pc = "done", !.outcome = "TypeError"]
    /\ UNCHANGED <<cancellation_event, job, org>>
    /\ UNCHANGED <<clientVars, crawlVars, trackerVars>>

\* fetch_org_repositories raises: logged and raised again (lines 329-334)
org_repositories_fail ==
    /\ multi.pc = "idle"
    /\ multi' = [multi EXCEPT !.pc = "done", !.progress = 5,
                              !.outcome = "raised", !.sink = <<5>>]
    /\ UNCHANGED <<cancellation_event, job, org>>
    /\ UNCHANGED <<clientVars, crawlVars, trackerVars>>

\* one pass of the batch loop (lines 259-310), and lines 312-321 after the last
process_batch(outs) ==
    /\ multi.pc = "batch"
    /\ LET n == multi.repos
           batch == Batch(multi.next, n)
           last == multi.next + batch_size(n) > n
       IN multi' = [multi EXCEPT
               !.outcomes = [r \in DOMAIN multi.outcomes \cup batch |->
                                IF r \in batch THEN outs[r] ELSE multi.outcomes[r]],
               !.batches = Append(@, [first |-> multi.next,
                                      flag |-> cancellation_event,
                                      submitted |-> batch]),
               !.all_content = @ \cup BatchContent(batch, outs),
               !.extended = @ \o InListOrder(BatchContent(batch, outs)),
               !.next = @ + batch_size(n),
               !.progress = IF last THEN 70 ELSE BatchProgress(multi.next, n),
               !.sink = @ \o <<BatchProgress(multi.next, n)>>
                          \o (IF last THEN <<70>> ELSE <<>>),
               !.pc = IF last THEN "done" ELSE "batch",
               !.outcome = IF last THEN "returned" ELSE @]
    /\ UNCHANGED <<cancellation_event, job, org>>
    /\ UNCHANGED <<clientVars, crawlVars, trackerVars>>

\* submit on an executor that was shut down (lines 322-328): the function
\* ends without a return value
executor_shut_down ==
    /\ multi.pc = "batch"
    /\ multi' = [multi EXCEPT !.pc = "done", !.outcome = "returned None"]
    /\ UNCHANGED <<cancellation_event, job, org>>
    /\ UNCHANGED <<clientVars, crawlVars, trackerVars>>

NextMulti ==
    \/ \E n \in 0..MaxRepos : fetch_multiple_repositories(n)
    \/ run_update_fetch_content
    \/ org_repositories_fail
    \/ \E outs \in [Batch(multi.next, multi.repos) -> RepoOutcomes] :
           process_batch(outs)
    \/ executor_shut_down
    \/ set_cancellation
SpecMulti == InitIdle /\ [][NextMulti]_vars

\* a caller making one call, of fetch_organization_repositories or of
\* fetch_multiple_repositories
NextOrgFetch ==
    \/ \E total \in Totals, given \in BOOLEAN :
           multi.pc = "idle" /\ fetch_organization_repositories(total, given)
    \/ \E given \in BOOLEAN : multi.pc = "idle" /\ org_info_fails(given)
    \/ page_checkpoint
    \/ \E kind \in PageOutcomes, size \in PageSizes :
           get_organization_repos(kind, size)
    \/ \E n \in 0..MaxRepos : org.pc = "idle" /\ fetch_multiple_repositories(n)
    \/ org.pc = "idle" /\ run_update_fetch_content
    \/ org.pc = "idle" /\ org_repositories_fail
    \/ \E outs \in [Batch(multi.next, multi.repos) -> RepoOutcomes] :
           process_batch(outs)
    \/ executor_shut_down
    \/ set_cancellation
SpecOrgFetch == InitIdle /\ [][NextOrgFetch]_vars

(***************************************************************************)
(* Repository URLs: re.match(r"https?://github\.com/([^/]+)/([^/]+)", url)  *)
(* and repo.rstrip(".git"), as strings of characters.                       *)
(***************************************************************************)
MaxNameLen == 3
NameAlphabet == {"a", "g", "i", "t", "."}
RepoNames == UNION {[1..n -> NameAlphabet] : n \in 1..MaxNameLen}
DotGit == <<".", "g", "i", "t">>
RepoSegments == RepoNames \cup {name \o DotGit : name \in RepoNames}
OwnerNames == {<<"o">>, <<"g", "i", "t">>}
Http == <<"h", "t", "t", "p">>
Https == Http \o <<"s">>
Schemes == {Http, Https}
GithubHost == <<":", "/", "/", "g", "i", "t", "h", "u", "b", ".", "c", "o", "m", "/">>
GitlabHost == <<":", "/", "/", "g", "i", "t", "l", "a", "b", ".", "c", "o", "m", "/">>
RepoUrl(scheme, owner, segment) == scheme \o GithubHost \o owner \o <<"/">> \o segment
\* strings the pattern does not match: another scheme, another host, no
\* repository segment, an empty owner
MalformedUrls ==
    {<<"f", "t", "p">> \o GithubHost \o <<"o", "/", "a">>,
     Https \o GitlabHost \o <<"o", "/", "a">>,
     Https \o GithubHost \o <<"o">>,
     Https \o GithubHost \o <<"o", "/">>,
     Https \o GithubHost \o <<"/", "a">>,
     <<"o", "/", "a">>}
Urls == {RepoUrl(scheme, owner, segment) :
            scheme \in Schemes, owner \in OwnerNames, segment \in RepoSegments}
        \cup MalformedUrls

StartsWith(s, prefix) ==
    /\ Len(prefix) <= Len(s)
    /\ SubSeq(s, 1, Len(prefix)) = prefix
Drop(s, n) == SubSeq(s, n + 1, Len(s))
\* [^/]+ at the start of s: the length of the longest run without a slash
RunLength(s) ==
    CHOOSE n \in 0..Len(s) :
        /\ \A i \in 1..n : s[i] # "/"
        /\ n = Len(s) \/ s[n + 1] = "/"
NoMatch == [matched |-> FALSE, owner |-> <<>>, repo |-> <<>>]
\* the groups of the pattern, matched from the start of the string; the
\* pattern is not anchored at the end
MatchGroups(rest) ==
    LET o == RunLength(rest)
        r == RunLength(Drop(rest, o + 1))
    IN IF o >= 1 /\ o < Len(rest) /\ r >= 1
       THEN [matched |-> TRUE, owner |-> SubSeq(rest, 1, o),
             repo |-> SubSeq(Drop(rest, o + 1), 1, r)]
       ELSE NoMatch
Match(url) ==
    IF StartsWith(url, Https \o GithubHost)
    THEN MatchGroups(Drop(url, Len(Https \o GithubHost)))
    ELSE IF StartsWith(url, Http \o GithubHost)
    THEN MatchGroups(Drop(url, Len(Http \o GithubHost)))
    ELSE NoMatch

\* str.rstrip(chars): every trailing character that is in chars is removed
removesuffix(s, suffix) ==
    IF EndsWith(s, suffix) THEN SubSeq(s, 1, Len(s) - Len(suffix)) ELSE s
rstrip(s, chars) ==
    LET keep == CHOOSE n \in 0..Len(s) :
                    /\ n = 0 \/ s[n] \notin chars
                    /\ \A i \in (n + 1)..Len(s) : s[i] \in chars
    IN SubSeq(s, 1, keep)
Characters(s) == {s[i] : i \in 1..Len(s)}

\* the first lines of fetch_single_repo and of fetch_content_for_dataset for
\* a string: ValueError without a match, else owner and repo
Resolve(op, url, then_http) ==
    LET m == Match(url)
    IN IF ~m.matched
       THEN [op |-> op, url |-> url, outcome |-> "ValueError", owner |-> <<>>,
             repo |-> <<>>, http |-> FALSE]
       ELSE [op |-> op, url |-> url, outcome |-> "resolved", owner |-> m.owner,
             repo |-> rstrip(m.repo, Characters(DotGit)), http |-> then_http]

\* the caller holds a string of Urls
InitUrl ==
    /\ request_lock = "free"
    /\ since_last_request = AgeCap
    /\ since_hour_start = 0
    /\ min_request_interval = InitialInterval
    /\ current_requests = 0
    /\ th = [t \in AllThreads |-> IdleThread]
    /\ call = NoCall
    /\ calls = 0
    /\ CrawlAtRest
    /\ \E url \in Urls : parse = [NoParse EXCEPT !.url = url]
    /\ TrackerAtRest
    /\ JobsAtRest

\* fetch_single_repo: the resolved repository is requested from the API
fetch_single_repo(repo_url) ==
    /\ parse.op = "none"
    /\ repo_url = parse.url
    /\ parse' = Resolve("fetch_single_repo", repo_url, TRUE)
    /\ UNCHANGED <<tree, act, processed, failed, content>>
    /\ UNCHANGED <<clientVars, trackerVars, jobVars>>

\* fetch_content_for_dataset given a string, up to the try block
resolve_repo_data(repo_data) ==
    /\ parse.op = "none"
    /\ repo_data = parse.url
    /\ parse' = Resolve("fetch_content_for_dataset", repo_data, FALSE)
    /\ UNCHANGED <<tree, act, processed, failed, content>>
    /\ UNCHANGED <<clientVars, trackerVars, jobVars>>

NextUrl ==
    \/ \E repo_url \in Urls : fetch_single_repo(repo_url)
    \/ \E repo_data \in Urls : resolve_repo_data(repo_data)
SpecUrl == InitUrl /\ [][NextUrl]_vars


(***************************************************************************)
(* The rate-limited client: claims C1 - C6.                                *)
(***************************************************************************)
\* a thread writes last_request_time in this step
WritesLastRequestTime(t) ==
    th[t].pc \in {"pace", "pace_sleep"} /\ th'[t].pc = "http"

\* min_request_interval as the pacing check of t's request read it (client.py:85)
AdmittedInterval(t) ==
    IF th[t].pc = "pace" THEN min_request_interval ELSE th[t].admit

\* C1: with threads calling get and get_repository_file concurrently, every
\* write of last_request_time comes at least min_request_interval after the
\* previous write, min_request_interval being the value the pacing check of
\* the later request read.
C1_Pacing ==
    [][\A t \in Threads :
          WritesLastRequestTime(t) => since_last_request >= AdmittedInterval(t)]_vars

\* one thread's request is in flight while another, on its download, sleeps
\* out the raised interval with the lock held
C1_Witness ==
    \E t, u \in Threads :
        /\ t # u
        /\ th[t].pc = "http" /\ th[t].phase = "meta"
        /\ th[u].pc = "pace_sleep" /\ th[u].phase = "download"
        /\ th[u].admit = LowInterval /\ request_lock = u

\* the observed caller's latest call of get has ended
GetEnded == call.get_outcome # "none"

\* the latest call did nothing but the budget check
NothingDone ==
    /\ call.attempts = 0 /\ call.downloads = 0
    /\ call.waits = 0 /\ call.paced = 0
    /\ call.stamps = 0 /\ call.counted = 0 /\ ~call.did_reset

\* get was called with the counter above 90% of the budget and fewer than 10 left
CalledNearlyExhausted ==
    /\ calls > 0
    /\ call.pre_requests * 10 > requests_per_hour * 9
    /\ requests_per_hour - call.pre_requests < 10

RateLimited(x) == x.status = "403rl"
Under120(x) == RateLimited(x) /\ x.delta < 120
WaitWithin120(x) == RateLimited(x) /\ x.delta + ResetBuffer <= 120
Ok200 == [status |-> "200", delta |-> 0]

EndedOnLastResponse ==
    /\ GetEnded
    /\ th[Observed].pc = "idle"
    /\ call.waits = call.attempts - 1

\* C4 as stated: a rate-limit 403 with reset - now >= 120 raises
\* RateLimitError on that response, with no sleep and no further attempt; a
\* rate-limit 403 with reset - now < 120 is not failed while attempts remain.
C4_Original ==
    /\ (RateLimited(call.last) /\ call.last.delta >= 120) =>
           call.get_outcome = "RateLimitError_long" /\ EndedOnLastResponse
    /\ (Under120(call.last) /\ call.attempts < GITHUB_MAX_RETRIES) => ~GetEnded

\* C4, amended: the same, the converse for reset - now <= 115 only (a 403 with
\* 115 < reset - now < 120 has wait > 120 and is failed at once).
C4_LongWaitFailsFast ==
    /\ (RateLimited(call.last) /\ call.last.delta >= 120) =>
           call.get_outcome = "RateLimitError_long" /\ EndedOnLastResponse
    /\ (WaitWithin120(call.last) /\ call.attempts < GITHUB_MAX_RETRIES) => ~GetEnded

\* a long-wait 403 answering the second attempt, after a retried short-wait 403
C4_Witness ==
    /\ RateLimited(call.last) /\ call.last.delta >= 120
    /\ call.get_outcome = "RateLimitError_long"
    /\ call.attempts = 2 /\ call.waits = 1

\* C5: a response that is neither 200 nor a rate-limit 403 raises
\* GitHubAPIError on that response: the error is not taken for a network
\* error, nothing is slept and no attempt follows.
C5_StatusErrorNotRetried ==
    call.last.status = "other" =>
        call.get_outcome = "GitHubAPIError_status" /\ EndedOnLastResponse

C5_Witness ==
    /\ call.last.status = "other"
    /\ call.get_outcome = "GitHubAPIError_status"
    /\ call.attempts = 1

\* C6: a get all of whose attempts fail with a network error makes exactly
\* GITHUB_MAX_RETRIES attempts and raises GitHubAPIError; and no get makes
\* more than GITHUB_MAX_RETRIES attempts: the attempt number
\* GITHUB_MAX_RETRIES ends it.
C6_BoundedAttempts ==
    /\ (GetEnded /\ call.seen # {} /\ \A x \in call.seen : x.status = "neterr") =>
           /\ call.get_outcome = "GitHubAPIError_connect"
           /\ call.attempts = GITHUB_MAX_RETRIES
    /\ call.attempts <= GITHUB_MAX_RETRIES
    /\ call.counted <= GITHUB_MAX_RETRIES
    /\ call.attempts = GITHUB_MAX_RETRIES => GetEnded

C6_Witness ==
    /\ call.get_outcome = "GitHubAPIError_connect"
    /\ call.attempts = GITHUB_MAX_RETRIES
    /\ \A x \in call.seen : x.status = "neterr"

(***************************************************************************)
(* The crawl: claims C7 - C10.                                             *)
(***************************************************************************)
\* fetch_relevant_content has returned; Result is the list it returned
CrawlReturned == act[Root].st = "done"
Result == act[Root].files_data
Occurrences(p) == Cardinality({i \in 1..Len(Result) : Result[i].path = p})
HasRecord(f) == Occurrences(ItemPath(f)) >= 1
HasErrorRecord(f) ==
    \E i \in 1..Len(Result) :
        Result[i].path = ItemPath(f) /\ "error" \in Result[i].keys
EveryListingSucceeded == \A d \in AllDirs : act[d].listing # "GitHubAPIError"
ListedOnTheWay(f) == \A d \in Prefixes(f.dir) : act[d].listing = "ok"

SegmentMatches(segment) ==
    \E keyword \in RELEVANT_FOLDERS : Contains(keyword, Lower(segment))
AllowedExtension(f) ==
    \E ext \in TEXT_FILE_EXTENSIONS : EndsWith(Lower(f.name), ext)
WithinMaxSize(f) == f.size <= MAX_FILE_SIZE_MB * BytesPerMB
NoIgnoredSegment(f) == \A i \in 1..Len(f.dir) : f.dir[i] \notin IGNORED_DIRS
SomeSegmentMatches(f) == \E i \in 1..Len(f.dir) : SegmentMatches(f.dir[i])
TopLevelMatches(f) == Len(f.dir) >= 1 /\ SegmentMatches(f.dir[1])
Collectable(f) ==
    TopLevelMatches(f) /\ AllowedExtension(f) /\ WithinMaxSize(f)
        /\ NoIgnoredSegment(f)

C10_DepthBounded ==
    \A d \in AllDirs : act[d].listing # "none" => Len(d) <= max_depth

(***************************************************************************)
(* The task tracker: claims C11 - C16.                                     *)
(***************************************************************************)
Terminal(status) == status \in {"completed", "cancelled", "failed"}
Rank(status) ==
    CASE status = "created" -> 0 [] status = "in_progress" -> 1 [] OTHER -> 2
\* the step is a call of op on the task id
Called(op, id) ==
    /\ tracker_calls' # tracker_calls
    /\ last_call' = [op |-> op, id |-> id]
\* the task ids whose record the step changes without creating it anew
Touched ==
    {id \in DOMAIN tasks : ~Called("create_task", id) /\ tasks'[id] # tasks[id]}
StatusChanged == {id \in Touched : tasks'[id].status # tasks[id].status}

C12_StageEntry ==
    /\ [][\A id \in DOMAIN tasks :
             /\ Called("update_task_progress", id) =>
                    /\ tasks'[id].stage_writes # tasks[id].stage_writes
                           <=> tasks'[id].current_stage # tasks[id].current_stage
                    /\ tasks'[id].current_stage = tasks[id].current_stage =>
                           /\ tasks'[id].stages = tasks[id].stages
                           /\ tasks'[id].stage_started_at = tasks[id].stage_started_at
             /\ tasks'[id].stage_writes # tasks[id].stage_writes
                    => Called("update_task_progress", id) \/ Called("create_task", id)]_vars
    /\ [](\A id \in DOMAIN tasks :
             tasks[id].stage_writes =
                 Len(tasks[id].stages)
                     + (IF tasks[id].current_stage = NoStage THEN 0 ELSE 1))

\* create, update(A, 10), update(A, 50), update(B, 10)
C12_Witness ==
    \E id \in DOMAIN tasks :
        /\ tasks[id].current_stage = "B" /\ tasks[id].progress = 10
        /\ tasks[id].stages = <<"A">> /\ tasks[id].stage_writes = 2
        /\ tracker_calls >= 4

\* C13: cancel_task sets status cancelled together with cancelled_at and
\* keeps the record; a cancelled task stays cancelled under further cancel
\* and update calls; and no cancelled task is in a list_resumable_tasks
\* result.
C13_Cancel ==
    /\ [][\A id \in DOMAIN tasks :
             /\ Called("cancel_task", id) =>
                    /\ tasks'[id].status = "cancelled"
                    /\ tasks'[id].cancelled_at = clock
             /\ tasks[id].status = "cancelled"
                    => \/ tasks'[id].status = "cancelled"
                       \/ Called("complete_task", id)
                       \/ Called("create_task", id)]_vars
    /\ [](/\ \A i \in 1..Len(ids_created) : ids_created[i].id \in DOMAIN tasks
          /\ \A id \in DOMAIN tasks :
                 tasks[id].status = "cancelled" =>
                     /\ tasks[id].cancelled_at # NoTime
                     /\ \A i \in 1..Len(ListResumable(tasks, clock)) :
                            ListResumable(tasks, clock)[i].id # id)

\* a task that was in progress has been cancelled some time after its stage
\* began
C13_Witness ==
    \E id \in DOMAIN tasks :
        /\ tasks[id].status = "cancelled" /\ tasks[id].stage_writes > 0
        /\ last_call = [op |-> "cancel_task", id |-> id]
        /\ tasks[id].cancelled_at > tasks[id].stage_started_at

\* C14: list_resumable_tasks returns each in_progress task once and no other
\* task, most recently updated first, each with its updated_ago.
C14_ListResumable ==
    /\ [][Called("list_resumable_tasks", <<>>)
             => last_list' = ListResumable(tasks, clock)]_vars
    /\ [](LET l == ListResumable(tasks, clock)
          IN /\ {l[i].id : i \in 1..Len(l)}
                    = {id \in DOMAIN tasks : tasks[id].status = "in_progress"}
             /\ \A i, j \in 1..Len(l) :
                    /\ i # j => l[i].id # l[j].id
                    /\ i < j => l[i].updated_at >= l[j].updated_at
             /\ \A i \in 1..Len(l) :
                    /\ l[i].updated_at = tasks[l[i].id].updated_at
                    /\ l[i].updated_ago.n
                           = (clock - l[i].updated_at) \div SecondsPerMinute)

\* two tasks in progress were listed, the one updated later first
C14_Witness ==
    /\ Len(last_list) = 2
    /\ last_list[1].updated_at > last_list[2].updated_at
    /\ last_call.op = "list_resumable_tasks"

\* C15: complete_task sets completed on success and failed otherwise, stores
\* the result, appends the current stage to the stages history, clears
\* current_stage and, on success, sets progress to 100.
C15_Complete ==
    [][\A id \in DOMAIN tasks :
          Called("complete_task", id) =>
              /\ tasks'[id].result \in {"dataset", "error"}
              /\ tasks'[id].status =
                     (IF tasks'[id].result = "dataset" THEN "completed" ELSE "failed")
              /\ tasks'[id].completed_at = clock
              /\ tasks'[id].current_stage = NoStage
              /\ tasks'[id].stages =
                     (IF tasks[id].current_stage = NoStage THEN tasks[id].stages
                      ELSE Append(tasks[id].stages, tasks[id].current_stage))
              /\ tasks'[id].progress =
                     (IF tasks'[id].result = "dataset" THEN FullProgress
                      ELSE tasks[id].progress)]_vars

\* a failed task whose last stage went to the history
C15_Witness ==
    \E id \in DOMAIN tasks :
        /\ tasks[id].status = "failed" /\ tasks[id].result = "error"
        /\ tasks[id].stages = <<"A", "B">> /\ tasks[id].current_stage = NoStage

LastMessage(o) == o.messages[Len(o.messages)]

\* C17: in fetch_organization_repositories every page request follows a
\* checkpoint of its own that found the flag unset; a checkpoint that finds
\* the flag set requests no page, reports "Operation cancelled", and the call
\* returns the empty list without raising; nothing is requested afterwards.
C17_CancelCheckpoint ==
    /\ [][org.pc = "check" /\ org' # org /\ org.has_event /\ cancellation_event
             => /\ org'.requested = org.requested
                /\ LastMessage(org').text = "Operation cancelled"
                /\ org'.pc = "done" /\ org'.outcome = "returned"
                /\ org'.result = 0]_vars
    /\ [][org'.requested > org.requested
             => org.pc = "fetch" /\ org.checks = org.requested + 1]_vars
    /\ [][org.pc = "done" => org' = org]_vars

\* the flag was set after a full page had been fetched
C17_Witness ==
    /\ org.pc = "done" /\ org.outcome = "returned"
    /\ LastMessage(org).text = "Operation cancelled"
    /\ org.requested = 1 /\ org.processed = PER_PAGE /\ org.result = 0

\* C18: in fetch_multiple_repositories no batch is submitted once the cancel
\* flag is set.
C18_NoBatchAfterCancel ==
    \A k \in 1..Len(multi.batches) : ~multi.batches[k].flag

\* C19: a job of create_dataset_from_repository that failed (an exception
\* while fetching, no content found, or a failed upload) ends with its task
\* failed, carrying the error as result, and never cancelled.
C19_FailureEndsFailed ==
    job.pc = "done" /\ job.cause \in FailureCauses /\ ~job.flag_seen
        => /\ tasks[job.task_id].status = "failed"
           /\ tasks[job.task_id].result = "error"

\* C20: in fetch_multiple_repositories a repository whose crawl raises
\* contributes no file and stops nothing: the collected content is at every
\* point the files of the submitted repositories that returned files, and a
\* call that returns has processed every repository of every batch.
C20_FailureContributesNothing ==
    /\ multi.all_content
           = {r \in DOMAIN multi.outcomes : multi.outcomes[r] = "files"}
    /\ multi.outcome = "returned" => DOMAIN multi.outcomes = 1..multi.repos

\* two batches; in the first a repository raised and another returned files,
\* and the repository of the second batch returned files
C20_Witness ==
    /\ multi.outcome = "returned" /\ multi.repos > BATCH_SIZE
    /\ multi.outcomes[1] = "raised" /\ multi.outcomes[2] = "files"
    /\ multi.outcomes[multi.repos] = "files"
    /\ multi.all_content = {2, multi.repos}

(***************************************************************************)
(* The rate limiter's state and the download loop: claims C27 - C29.       *)
(***************************************************************************)
\* a write of last_request_time, min_request_interval, current_requests or
\* hour_start_time
LimiterWrite ==
    \/ min_request_interval' # min_request_interval
    \/ current_requests' # current_requests
    \/ since_last_request' < since_last_request
    \/ since_hour_start' < since_hour_start
\* the thread that takes the step does it inside `with request_lock`: it holds
\* the lock, or takes and releases it within the step
UnderLock ==
    \E t \in AllThreads :
        /\ th'[t] # th[t]
        /\ \/ request_lock = t
           \/ request_lock = "free" /\ th[t].pc \in {"idle", "pace"}

\* C27: every write to the rate limiter's state is made by a thread inside
\* `with request_lock`, and no thread holds the lock during its HTTP call.
C27_LockDiscipline ==
    /\ [][LimiterWrite => UnderLock]_vars
    /\ [](\A t \in AllThreads : th[t].pc = "http" => request_lock # t)

\* the step is an HTTP attempt of get that got a response
Responded ==
    /\ call'.attempts = call.attempts + 1
    /\ call'.last.status # "neterr"

\* C28 as stated: min_request_interval starts at 1, is raised to at least 2
\* exactly by a response whose remaining-quota header is 100 or less, is left
\* alone by a response with more than 100 or with no such header, and never
\* decreases.
C28_Original ==
    /\ min_request_interval = InitialInterval
    /\ [][/\ min_request_interval' >= min_request_interval
          /\ Responded =>
                min_request_interval' =
                    IF call'.last_remaining # NoHeader
                          /\ call'.last_remaining <= LowRemainingMark
                    THEN Max(min_request_interval, LowInterval)
                    ELSE min_request_interval
          /\ ~Responded => min_request_interval' = min_request_interval]_vars

\* C28: min_request_interval starts at 1, is raised to at least 2 exactly by a
\* response whose remaining-quota header is 100 or less or is absent (read as
\* 1), is left alone by a response with more than 100 and by every other
\* step, the reset of the hour included, and never decreases.
C28_IntervalRaised ==
    /\ min_request_interval = InitialInterval
    /\ [][/\ min_request_interval' >= min_request_interval
          /\ Responded =>
                min_request_interval' =
                    IF call'.last_remaining = NoHeader
                          \/ call'.last_remaining <= LowRemainingMark
                    THEN Max(min_request_interval, LowInterval)
                    ELSE min_request_interval
          /\ ~Responded => min_request_interval' = min_request_interval]_vars

\* the interval, raised in an earlier call, is still 2 after the hour was
\* reset and a response reported 101 remaining
C28_Witness ==
    /\ min_request_interval = LowInterval
    /\ call.did_reset /\ call.attempts = 1
    /\ call.last.status = "200" /\ call.last_remaining = 101
    /\ call.seen = {Seen([status |-> "200", remaining |-> 101, delta |-> 0,
                          body |-> "list"])}

\* retry counts over which the backoff formula is evaluated
DownloadRetryRange == 8
\* the step is a download attempt
Downloaded == call'.downloads = call.downloads + 1

\* C29: get_repository_file makes at most GITHUB_DOWNLOAD_RETRIES download
\* attempts, whatever get used up before; a connection-level error is retried
\* while the budget lasts and ends in GitHubAPIError when it is exhausted, any
\* other request error ends in GitHubAPIError at once, and no backoff sleep is
\* longer than 30 seconds.
C29_DownloadBudget ==
    /\ [](/\ call.downloads <= GITHUB_DOWNLOAD_RETRIES
          /\ call.outcome # "GitHubAPIError_download_max"
          /\ \A n \in 1..DownloadRetryRange : DownloadBackoff(n) <= MaxDownloadSleep)
    /\ [][Downloaded =>
            CASE call'.last_download = "ok" -> call'.outcome = "ok"
              [] call'.last_download = "request" ->
                    /\ call'.outcome = "GitHubAPIError_download"
                    /\ th'[Observed].pc = "idle"
              [] call'.last_download = "connection"
                    /\ call'.downloads < GITHUB_DOWNLOAD_RETRIES ->
                    /\ call'.outcome = "none"
                    /\ th'[Observed].pc = "backoff"
                    /\ th'[Observed].retry_count = call'.downloads
              [] OTHER ->
                    /\ call'.outcome = "GitHubAPIError_download_retries"
                    /\ th'[Observed].pc = "idle"]_vars

\* get needed all its attempts, and the download then used its own whole budget
C29_Witness ==
    /\ call.attempts = GITHUB_MAX_RETRIES
    /\ call.downloads = GITHUB_DOWNLOAD_RETRIES
    /\ call.outcome = "GitHubAPIError_download_retries"

(***************************************************************************)
(* fetch_content_for_dataset and its progress callback: claims C21 - C24.   *)
(***************************************************************************)
ContentReturned == content.pc = "returned"
ContentRaised == content.pc = "raised"
RootListingFailed == act[Root].listing = "GitHubAPIError"

\* C21: when the listing of the root directory fails, fetch_content_for_dataset
\* does not return (an empty list or any other): the error reaches its caller.
\* When only listings of subdirectories fail, it returns, the failed subtrees
\* contributing nothing.
C21_RootListingFatal ==
    /\ RootListingFailed => ~ContentReturned
    /\ ContentReturned /\ ~RootListingFailed =>
           \A f \in tree : HasRecord(f) => ListedOnTheWay(f)

NonDecreasing(values) ==
    \A i \in 1..(Len(values) - 1) : values[i] <= values[i + 1]
IsPercentage(v) == v # ErrorSentinel
Percentages(values) == SelectSeq(values, IsPercentage)
\* the values of the batches: what lies between the first two values and the last
BatchValues(values) == SubSeq(values, 3, Len(values) - 1)
ContentMilestones == <<10, 15, 20, 30, 80, 90, 100>>

\* the callback of fetch_multiple_repositories sees 5, 20, one value in
\* (20, 70] per batch, then 70, none smaller than the one before
MultiProgressAsStated ==
    /\ NonDecreasing(multi.sink)
    /\ multi.outcome = "returned" =>
           /\ Len(multi.sink) = Len(multi.batches) + 3
           /\ SubSeq(multi.sink, 1, 2) = <<5, 20>>
           /\ multi.sink[Len(multi.sink)] = 70
           /\ \A i \in 1..Len(BatchValues(multi.sink)) :
                  BatchValues(multi.sink)[i] > 20 /\ BatchValues(multi.sink)[i] <= 70
\* as the code has it: 20 is reported a second time when there are
\* repositories (line 236)
MultiProgressInCode ==
    /\ NonDecreasing(multi.sink)
    /\ multi.outcome = "returned" =>
           multi.sink \in {<<5, 20, 70>>}
               \cup {<<5, 20, 20>> \o [k \in 1..Len(multi.batches) |->
                                         BatchProgress(multi.batches[k].first,
                                                       multi.repos)] \o <<70>>}

\* C22: the percentages one callback receives never decrease; a
\* fetch_content_for_dataset that returns has reported 10, 15, 20, 30, 80, 90,
\* 100 in that order, and fetch_multiple_repositories reports 5, 20, one
\* value in (20, 70] per batch, then 70.
C22_ProgressOrder ==
    /\ NonDecreasing(Percentages(content.sink))
    /\ ContentReturned => content.sink = ContentMilestones
    /\ MultiProgressAsStated

InSinkRange(v) == (v >= 0 /\ v <= 100) \/ v = ErrorSentinel
SinkPercents(o) == [i \in 1..Len(o.messages) |-> o.messages[i].percent]

\* C23: every percent a progress callback receives lies in [0, 100] or is
\* the error sentinel -1; in particular the value reported after a page of
\* fetch_organization_repositories never exceeds 100.
C23_PercentInRange ==
    /\ \A i \in 1..Len(org.messages) : InSinkRange(SinkPercents(org)[i])
    /\ \A i \in 1..Len(content.sink) : InSinkRange(content.sink[i])
    /\ \A i \in 1..Len(multi.sink) : InSinkRange(multi.sink[i])

\* an operation has ended by raising
OrgRaised == org.pc = "done" /\ org.outcome = "raised"
MultiRaised == multi.pc = "done" /\ multi.outcome = "raised"
HasNegative(values) == \E i \in 1..Len(values) : values[i] < 0

\* C24: when fetch_organization_repositories, fetch_content_for_dataset or
\* fetch_multiple_repositories ends by raising, its callback has received a
\* negative percent; a call that returns has sent none.
C24_NegativeOnError ==
    /\ OrgRaised => HasNegative(SinkPercents(org))
    /\ ContentRaised => HasNegative(content.sink)
    /\ MultiRaised => HasNegative(multi.sink)
    /\ org.outcome = "returned" => ~HasNegative(SinkPercents(org))
    /\ ContentReturned => ~HasNegative(content.sink)
    /\ multi.outcome = "returned" => ~HasNegative(multi.sink)

(***************************************************************************)
(* Organizations and batches: claims C25 and C30.                           *)
(***************************************************************************)
\* the organization reported no repository and its first page came back empty
EmptyOrganization ==
    /\ org.total_repos = 0 /\ org.requested >= 1 /\ org.processed = 0
    /\ org.outcome # "raised"
\* fetch_org_repositories returned the empty list to fetch_multiple_repositories
EmptyListing == multi.pc # "idle" /\ multi.repos = 0 /\ Len(multi.sink) >= 2

\* C25: for an organization that reports public_repos = 0 and whose listing
\* is empty, fetch_organization_repositories returns the empty list after one
\* page request, its callback has received the message of the 0 repositories
\* found and nothing else, and no crawl was started;
\* fetch_multiple_repositories on an empty listing returns the empty list
\* without submitting a batch.
C25_EmptyOrganization ==
    /\ EmptyOrganization =>
           /\ org.pc = "done" /\ org.outcome = "returned" /\ org.result = 0
           /\ org.requested = 1
           /\ org.messages = <<[percent |-> 0, text |-> "Found"]>>
           /\ CrawlAtRest /\ multi = NoMulti
    /\ EmptyListing =>
           /\ multi.pc = "done" /\ multi.outcome = "returned"
           /\ multi.all_content = {}
           /\ multi.batches = <<>> /\ multi.outcomes = <<>>
           /\ CrawlAtRest

\* the call for the empty organization has returned
C25_Witness ==
    /\ EmptyOrganization
    /\ org.pc = "done" /\ org.result = 0 /\ org.has_event

\* the call on the empty listing has returned
EmptyListingReturned ==
    EmptyListing /\ multi.outcome = "returned" /\ multi.sink = <<5, 20, 70>>

\* the batches submitted so far, and how often a repository was submitted
BatchCount == Len(multi.batches)
Submissions(r) ==
    Cardinality({k \in 1..BatchCount : r \in multi.batches[k].submitted})
\* the repositories partitioned into consecutive batches of min(5, n), each
\* submitted when every future of the batch before had been waited for
ConsecutiveBatches ==
    /\ \A k \in 1..BatchCount :
           LET first == (k - 1) * Min(BATCH_SIZE, multi.repos) + 1
               last == Min(k * Min(BATCH_SIZE, multi.repos), multi.repos)
           IN /\ multi.batches[k].submitted = first..last
              /\ first <= last
              /\ Cardinality(multi.batches[k].submitted) <= BATCH_SIZE
    /\ \A r \in 1..multi.repos : Submissions(r) <= 1
    /\ DOMAIN multi.outcomes
           = UNION {multi.batches[k].submitted : k \in 1..BatchCount}
    /\ multi.outcome = "returned" =>
           \A r \in 1..multi.repos : Submissions(r) = 1
    /\ multi.extended
           = InListOrder({r \in DOMAIN multi.outcomes : multi.outcomes[r] = "files"})

\* C30 as stated: the list is partitioned into consecutive batches of size
\* min(5, n), every repository is submitted exactly once, no batch holds more
\* than 5, a batch is submitted only when all results of the batch before
\* were collected, and the returned list is the concatenation of the results
\* of all repositories.
C30_Original ==
    /\ ConsecutiveBatches
    /\ \A r \in DOMAIN multi.outcomes : multi.outcomes[r] # "timeout"

\* C30: the list is partitioned into consecutive batches of size min(5, n):
\* no repository is submitted twice, a call that returns its list has
\* submitted each exactly once, no batch holds more than 5, a batch is
\* submitted only when every future of the batch before was waited for, its
\* result collected or given up at the timeout, and the list built is the
\* concatenation, in the order of the repositories, of the results collected.
C30_BatchPartition ==
    /\ ConsecutiveBatches
    /\ multi.all_content = {multi.extended[i] : i \in 1..Len(multi.extended)}

\* a call over more than 5 repositories has returned: two batches, a
\* repository of the first timed out, files of both batches are in the list
C30_Witness ==
    /\ multi.outcome = "returned" /\ multi.repos > BATCH_SIZE
    /\ BatchCount = 2
    /\ multi.outcomes[1] = "timeout"
    /\ multi.extended = <<BATCH_SIZE, multi.repos>>

(***************************************************************************)
(* Repository URLs: claim C26.                                              *)
(***************************************************************************)
\* C26: a URL https://github.com/{owner}/{repo}, with or without a trailing
\* ".git", resolves to the owner and to the {repo} segment less at most one
\* trailing ".git" and otherwise unchanged; a string the format does not match
\* raises ValueError and no request is made.
C26_UrlResolution ==
    parse.op # "none" =>
    /\ \A scheme \in Schemes, owner \in OwnerNames, segment \in RepoSegments :
           parse.url = RepoUrl(scheme, owner, segment) =>
               /\ parse.outcome = "resolved"
               /\ parse.owner = owner
               /\ parse.repo = removesuffix(segment, DotGit)
    /\ parse.url \in MalformedUrls =>
           parse.outcome = "ValueError" /\ ~parse.http

(***************************************************************************)
(* The fan-out of the crawl: claims C31 - C33.                              *)
(***************************************************************************)
\* the activations of _fetch_directory_content running in a worker thread of
\* a pool: every activation but the root's, from its listing to its return
Workers == {d \in AllDirs \ {Root} : act[d].st = "running"}

\* C31: at every moment at most 3 worker threads of the crawl are executing
\* _fetch_directory_content.
C31_WorkersBounded == Cardinality(Workers) <= max_workers

HasIgnoredSegment(d) == \E i \in 1..Len(d) : d[i] \in IGNORED_DIRS
Listed(d) == act[d].listing # "none"
Submitted(d) == act[d].st # "none"
PassesThrough(path, d) ==
    Len(path) > Len(d) /\ SubSeq(path, 1, Len(d)) = d

\* C32: a directory with an ignored name, and whatever lies below it, is
\* never submitted (no cache directory is made for it) and never listed, and
\* no record of the returned list has a path through it, also inside a
\* relevant folder.
C32_IgnoredSkipped ==
    \A d \in AllDirs :
        HasIgnoredSegment(d) =>
            /\ ~Submitted(d) /\ ~Listed(d)
            /\ \A x \in AllDirs :
                   \A i \in 1..Len(act[x].files_data) :
                       ~PassesThrough(act[x].files_data[i].path, d)

\* the crawl of a tree with docs/build/e.md has returned: docs was listed,
\* docs/build never
C32_Witness ==
    /\ CrawlReturned
    /\ File(<<N_docs, N_build>>, <<"e",".","m","d">>, UnderLimit) \in tree
    /\ act[<<N_docs>>].listing = "ok"
    /\ ~Listed(<<N_docs, N_build>>)

\* a segment of the path of d is relevant
RelevantOnPath(d) == \E i \in 1..Len(d) : SegmentMatches(d[i])
\* c lies below d (or is d) and no segment of c after d is an ignored name
CleanDescendant(c, d) ==
    /\ Len(c) >= Len(d) /\ SubSeq(c, 1, Len(d)) = d
    /\ \A i \in (Len(d) + 1)..Len(c) : c[i] \notin IGNORED_DIRS

C34_ProgressNonDecreasing ==
    [][\A id \in DOMAIN tasks \cap DOMAIN tasks' :
           tasks[id].status = "in_progress"
               => tasks'[id].progress >= tasks[id].progress]_vars

\* create_dataset_from_repository has returned
JobReturned == job.pc = "done"

\* C40: when create_dataset_from_repository has returned, the task it
\* created or was given is completed, cancelled or failed, and the call
\* writes nothing to the task after the terminal status of its last
\* statement: complete_task or cancel_task is the last call it makes.
C40_TaskFinalized ==
    /\ [](JobReturned => Terminal(tasks[job.task_id].status))
    /\ [][JobReturned /\ job'.pc = "done" => tasks' = tasks]_vars
    /\ [][job.pc # "done" /\ job'.pc = "done"
             => last_call'.op \in {"complete_task", "cancel_task"}
                /\ last_call'.id = job.task_id]_vars

\* a job resumed with the task of a cancelled run has returned with success
C40_Witness ==
    /\ JobReturned /\ job.resumed /\ job.outcome = "success"
    /\ tasks[job.task_id].status = "completed"



RequestsSent == call.attempts + call.downloads
CallEnded == th[Observed].pc = "idle" /\ call.outcome # "none"

\* C36: current_requests is the number of HTTP requests, downloads included,
\* sent since hour_start_time: when a call of get or get_repository_file has
\* ended, the counter is what the call's budget check left (0 after a reset)
\* plus every request the call has sent, and each of these requests has
\* written last_request_time.
C36_EveryRequestCounted ==
    CallEnded =>
        /\ current_requests =
               (IF call.did_reset THEN 0 ELSE call.pre_requests) + RequestsSent
        /\ call.stamps = RequestsSent


(***************************************************************************)
(* fetch_multiple_repositories and the shutdown of the executor: C38.      *)
(***************************************************************************)
\* C38: fetch_multiple_repositories either returns a list of file records or
\* raises; no shutdown of the executor while batches are submitted makes it
\* return a value that is no list, dropping what it had collected.
C38_ListOrRaise ==
    multi.pc = "done" => multi.outcome \in {"returned", "raised", "TypeError"}


(***************************************************************************)
(* Who calls the progress sink of a crawl: claim C37.                      *)
(***************************************************************************)
\* a step of the activation of directory d: its listing, or the collection of
\* its futures
ActivationStep(d) ==
    \/ act[d].st = "queued" /\ act'[d].st \in {"running", "done"}
    \/ act[d].st = "running" /\ act'[d].st = "done"

CrawlEnded == content.pc \in {"returned", "raised"}

====
